---- MODULE Spec2Model ----
(***************************************************************************)
(* Dictionary-App: the in-memory Lookup Cache (CacheManager) and the       *)
(* fetch orchestrator (APIService.fetchWord) of src/app.js.                *)
(*                                                                         *)
(* The JavaScript Map of CacheManager is a sequence of entries in the      *)
(* Map's iteration order (insertion order; overwriting a present key keeps *)
(* its position).  Date.now() is the variable now.  A fetchWord invocation *)
(* is a call slot that moves through the two awaits of the function.       *)
(*                                                                         *)
(* Spec is the application, where fetchWord alone drives the cache;        *)
(* SpecCache is CacheManager under any sequence of get, set and clear.     *)
(* SpecSW is the service worker of the same file: CacheStorage is the      *)
(* sequence of its caches, an intercepted request is a slot that moves     *)
(* through the awaits of its strategy, and a cache.put that the strategy   *)
(* does not await completes, or fails, in a step of its own.               *)
(* Both may start from a cache that a run of set calls has filled to       *)
(* MAX_CACHE_SIZE - 1 or MAX_CACHE_SIZE entries (Preload).                 *)
(***************************************************************************)
EXTENDS Integers, Sequences, FiniteSets, TLC

VARIABLES cache, now, calls, ret, ops, stores, puts, reqs, sw, link, ui, searches,
          debouncer

\* the state of the service worker: CacheStorage, the cache.put calls in
\* flight, the intercepted requests, the worker's life cycle and messages
swvars == <<stores, puts, reqs, sw>>

\* the state of the page around fetchWord: the intercepted request that
\* carries the fetch of a call, the visible containers, the searches, the
\* debounced validation of the search input
pagevars == <<link, ui, searches, debouncer>>

vars == <<cache, now, calls, ret, ops, stores, puts, reqs, sw, link, ui, searches,
          debouncer>>

(* ------------------------------------------------------------------ *)
(* Configuration (CONFIG of src/app.js)                               *)
(* ------------------------------------------------------------------ *)
CACHE_DURATION == 3600000
MAX_CACHE_SIZE == 50
DEBOUNCE_DELAY == 500

(* ------------------------------------------------------------------ *)
(* Bounds of the model                                                *)
(* ------------------------------------------------------------------ *)
\* the clock stops at MaxTicks * (CACHE_DURATION + 1)
MaxTicks == 1
\* operations that change the cache (set, clear, expiry purge), the preload
\* not counted
MaxOps == 2
\* fetchWord invocations of a run; they can be in flight together
MaxCalls == 2
\* requests the service worker intercepts in a run; they can be in flight
\* together
MaxReqs == 2
\* calls of the debounced validation in a run; the clock of the timers
\* stops at (MaxWrapperCalls + 1) * DEBOUNCE_DELAY
MaxWrapperCalls == 3

\* Cache keys: word number i stands for the i-th distinct normalized query.
\* The operations look up the two oldest words of a preload and one word
\* that no preload has stored.
Words == {1, 2, MAX_CACHE_SIZE + 1}
\* The words fetchWord is called with: a preloaded one and a new one.
FetchWords == {1, MAX_CACHE_SIZE + 1}
Calls == 1..MaxCalls

\* JavaScript null: what get returns for "absent", and a JSON payload too.
NULL == "null"
\* Values set is called with: two arrays and null.
Payloads == {"[hello]", "[world]", NULL}
\* Decoded bodies response.json() can yield: an array and JSON null.
Bodies == {"[world]", NULL}
\* JavaScript truthiness of a payload: arrays are truthy, null is falsy.
Truthy(d) == d # NULL

\* Clock advances between operations.
Deltas == {CACHE_DURATION, CACHE_DURATION + 1}
MaxNow == MaxTicks * (CACHE_DURATION + 1)
\* Sizes a run of consecutive set calls brings the cache to before the
\* operations of the model start.
PreloadSizes == {MAX_CACHE_SIZE - 1, MAX_CACHE_SIZE}

(* ------------------------------------------------------------------ *)
(* Error messages (Error.message as a sequence of words)              *)
(* ------------------------------------------------------------------ *)
MsgNotFound ==
    <<"Word", "not", "found.", "Please", "check", "your", "spelling", "and",
      "try", "again.">>
MsgNetwork ==
    <<"Network", "error.", "Please", "check", "your", "connection", "and",
      "try", "again.">>
MsgUnableToConnect ==
    <<"Unable", "to", "connect", "to", "the", "dictionary", "service.",
      "Please", "check", "your", "internet", "connection.">>
\* Message of the SyntaxError of response.json() on a body that is no JSON.
MsgSyntax == <<"Unexpected", "token">>
\* Messages of the TypeError a rejected fetch carries (Chromium, Firefox).
FetchRejections ==
    { <<"Failed", "to", "fetch">>,
      <<"NetworkError", "when", "attempting", "to", "fetch", "resource.">> }
NoError == <<>>

\* String.prototype.includes on word sequences.
Includes(msg, pat) ==
    \E i \in 0..(Len(msg) - Len(pat)) :
        \A j \in 1..Len(pat) : msg[i + j] = pat[j]

\* HTTP statuses the upstream answers with; Response.ok is 200..299.
Statuses == {200, 404, 500}
ResponseOk(status) == status >= 200 /\ status <= 299

(* ------------------------------------------------------------------ *)
(* JavaScript Map operations on the entry sequence                    *)
(* ------------------------------------------------------------------ *)
MapKeys(c) == { c[i].key : i \in 1..Len(c) }
MapHas(c, k) == k \in MapKeys(c)
MapIndex(c, k) == CHOOSE i \in 1..Len(c) : c[i].key = k
MapGet(c, k) == c[MapIndex(c, k)]

MapDelete(c, k) ==
    LET Keep(e) == e.key # k
    IN  SelectSeq(c, Keep)

\* Map.prototype.set as delete followed by insert: the key goes to the end.
MapSetMoveToEnd(c, k, item) ==
    Append(MapDelete(c, k),
           [key |-> k, data |-> item.data, timestamp |-> item.timestamp])

\* A list in place of the Map: every set adds an entry.
MapSetAppend(c, k, item) ==
    Append(c, [key |-> k, data |-> item.data, timestamp |-> item.timestamp])

\* Map.prototype.set: a present key is overwritten where it stands, a new
\* key goes to the end.
MapSet(c, k, item) ==
    LET e == [key |-> k, data |-> item.data, timestamp |-> item.timestamp]
    IN  IF MapHas(c, k)
        THEN [c EXCEPT ![MapIndex(c, k)] = e]
        ELSE Append(c, e)

\* The key inserted last instead of the one inserted first.
LastKey(c) == c[Len(c)].key

\* this.cache.keys().next().value
FirstKey(c) == c[1].key

(* ------------------------------------------------------------------ *)
(* CacheManager                                                       *)
(* ------------------------------------------------------------------ *)
\* The expiry test with >= in place of >.
IsExpiredInclusive(item, t) == t - item.timestamp >= CACHE_DURATION

\* isExpired of get
IsExpired(item, t) == t - item.timestamp > CACHE_DURATION

\* The expiry branch of get emptying the whole cache.
CacheGetCacheClearing(c, k, t) ==
    IF ~MapHas(c, k) THEN c
    ELSE IF t - MapGet(c, k).timestamp > CACHE_DURATION THEN <<>>
    ELSE c

\* CacheManager.get: the value returned.
CacheGetRet(c, k, t) ==
    IF ~MapHas(c, k) THEN NULL
    ELSE IF IsExpired(MapGet(c, k), t) THEN NULL
    ELSE MapGet(c, k).data

\* get that returns null for an expired entry without deleting it.
CacheGetCacheKeep(c, k, t) == c

\* get that moves an entry it returns to the newest position (LRU).
CacheGetCacheLru(c, k, t) ==
    IF ~MapHas(c, k) THEN c
    ELSE IF IsExpired(MapGet(c, k), t) THEN MapDelete(c, k)
    ELSE Append(MapDelete(c, k), MapGet(c, k))

\* CacheManager.get: the cache it leaves.
CacheGetCache(c, k, t) ==
    IF ~MapHas(c, k) THEN c
    ELSE IF IsExpired(MapGet(c, k), t) THEN MapDelete(c, k)
    ELSE c

\* set with the size test > in place of >=.
CacheSetOffByOne(c, k, data, t) ==
    LET c1 == IF Len(c) > MAX_CACHE_SIZE THEN MapDelete(c, FirstKey(c)) ELSE c
    IN  MapSet(c1, k, [data |-> data, timestamp |-> t])

\* set that first drops every expired entry.
CacheSetSweep(c, k, data, t) ==
    LET Fresh(e) == ~IsExpired(e, t)
        c0 == SelectSeq(c, Fresh)
        c1 == IF Len(c0) >= MAX_CACHE_SIZE THEN MapDelete(c0, FirstKey(c0)) ELSE c0
    IN  MapSet(c1, k, [data |-> data, timestamp |-> t])

\* CacheManager.set
CacheSet(c, k, data, t) ==
    LET c1 == IF Len(c) >= MAX_CACHE_SIZE THEN MapDelete(c, FirstKey(c)) ELSE c
    IN  MapSet(c1, k, [data |-> data, timestamp |-> t])

\* clear that drops the oldest entry only.
CacheClearOldest(c) == IF c = <<>> THEN c ELSE Tail(c)

\* CacheManager.clear
CacheClear(c) == <<>>

\* n consecutive set calls, keys 1..n, one payload, at one clock reading.
RECURSIVE Fill(_, _)
Fill(n, t) ==
    IF n = 0 THEN <<>>
    ELSE LET prev == Fill(n - 1, t)
         IN  IF prev = <<>>
             THEN CacheSet(<<>>, n, "[hello]", t)
             ELSE CacheSet(prev, n, "[hello]", t)

(* ------------------------------------------------------------------ *)
(* Service worker: requests, responses, CacheStorage                  *)
(* ------------------------------------------------------------------ *)
CACHE_NAME == "dictionary-app-v1"
RUNTIME_CACHE == "dictionary-runtime-v1"

\* url.origin of the dictionary API and of the application itself
API_ORIGIN == "https://api.dictionaryapi.dev"
APP_ORIGIN == "self"
FONT_ORIGIN == "https://fonts.googleapis.com"

\* Requests the page issues: two of the application's own assets, the font
\* stylesheet of another origin and one dictionary lookup.
IndexPage == [origin |-> APP_ORIGIN, path |-> "./index.html", word |-> 0]
StyleSheet == [origin |-> APP_ORIGIN, path |-> "./style.css", word |-> 0]
FontSheet == [origin |-> FONT_ORIGIN, path |-> "/css2?family=Inter", word |-> 0]
\* The request that fetchWord(w) issues: API_URL followed by the word.
ApiRequest(w) == [origin |-> API_ORIGIN, path |-> "/api/v2/entries/en/", word |-> w]
ApiLookup == ApiRequest(1)
SwRequests == {IndexPage, StyleSheet, FontSheet, ApiLookup}

\* The assets of STATIC_ASSETS among them.
STATIC_ASSETS == {IndexPage, StyleSheet, FontSheet}

Reqs == 1..MaxReqs

\* What the network answers: a status and one of two versions of the body.
SwStatuses == {200, 404}
Versions == {"v1", "v2"}
NetResponse(status, body) ==
    [status |-> status, statusText |-> IF status = 200 THEN "OK" ELSE "Not Found",
     contentType |-> "upstream", body |-> body]

\* The Response that networkFirstStrategy builds when it has nothing else.
OfflineResponse ==
    [status |-> 503, statusText |-> "Service Unavailable",
     contentType |-> "application/json",
     body |-> "{error:Offline,message:You are currently offline. Please check your internet connection.}"]

\* A value that may be undefined: <<>> is undefined, <<r>> is the response r.
Undefined == <<>>
Some(r) == <<r>>

\* CacheStorage is the sequence of its caches in the order of their creation
\* (the order of caches.keys() and of caches.match); a cache maps a request
\* to the response stored under it, or to undefined.
StoreKeys == SwRequests \cup {ApiRequest(w) : w \in FetchWords}
EmptyCache == [rq \in StoreKeys |-> Undefined]
HasCache(ss, name) == \E i \in 1..Len(ss) : ss[i].name = name

\* caches.open(name): the cache is created when there is none of that name.
CachesOpen(ss, name) ==
    IF HasCache(ss, name) THEN ss
    ELSE Append(ss, [name |-> name, entries |-> EmptyCache])

\* caches.match over one cache only.
CachesMatchIn(ss, name, rq) ==
    LET hits == {i \in 1..Len(ss) : ss[i].name = name /\ ss[i].entries[rq] # Undefined}
    IN IF hits = {} THEN Undefined
       ELSE ss[CHOOSE i \in hits : TRUE].entries[rq]

\* caches.match(request): the first match over all caches in creation order.
CachesMatch(ss, rq) ==
    LET hits == {i \in 1..Len(ss) : ss[i].entries[rq] # Undefined}
    IN IF hits = {} THEN Undefined
       ELSE ss[CHOOSE i \in hits : \A j \in hits : i <= j].entries[rq]

\* cache.put(request, response) once it has completed, on the cache of that
\* name: the response replaces what was stored under the request.
CachePut(ss, name, rq, resp) ==
    [i \in 1..Len(ss) |->
        IF ss[i].name = name
        THEN [ss[i] EXCEPT !.entries = [@ EXCEPT ![rq] = Some(resp)]]
        ELSE ss[i]]

\* caches.delete(name)
CachesDelete(ss, name) == SelectSeq(ss, LAMBDA st : st.name # name)

\* The names caches.keys() resolves with.
CachesKeys(ss) == {ss[i].name : i \in 1..Len(ss)}

\* The puts in flight once the cache of that name is deleted: they still
\* complete, on a cache that CacheStorage no longer holds.
Orphaned(ps, name) ==
    {IF p.name = name THEN [p EXCEPT !.orphan = TRUE] ELSE p : p \in ps}

\* cache.addAll(STATIC_ASSETS) once it has completed: every asset is stored.
CacheAddAll(ss, name, body) ==
    [i \in 1..Len(ss) |->
        IF ss[i].name = name
        THEN [ss[i] EXCEPT !.entries =
                 [rq \in StoreKeys |->
                     IF rq \in STATIC_ASSETS THEN Some(NetResponse(200, body))
                     ELSE @[rq]]]
        ELSE ss[i]]

\* What an earlier deployment of the application left in CacheStorage: the
\* static cache of its version, alone or with the runtime cache.
OLD_CACHE == "dictionary-app-v0"
OldStatic ==
    [name |-> OLD_CACHE,
     entries |-> [EmptyCache EXCEPT ![IndexPage] = Some(NetResponse(200, "v0"))]]
OldRuntime ==
    [name |-> RUNTIME_CACHE,
     entries |-> [EmptyCache EXCEPT ![ApiLookup] = Some(NetResponse(200, "v0"))]]
OldStores == {<<OldStatic>>, <<OldStatic, OldRuntime>>}

\* The service worker: its life cycle (phase), whether skipWaiting() was
\* called, the caches the activate handler has still to delete (doomed),
\* where the handling of a CLEAR_CACHE message stands (clear) and the caches it
\* has still to delete (names).  Recorded with it: how cache.addAll ended
\* (addAll), whether the cache it writes to was deleted meanwhile (detached),
\* whether the static store held every asset when the install handler's
\* promise settled (complete), and whether a put has stored a response since
\* the CLEAR_CACHE message was received (restored).
NewWorker ==
    [phase |-> "parsed", skipWaiting |-> FALSE, doomed |-> {},
     clear |-> "idle", names |-> {},
     addAll |-> "none", detached |-> FALSE, complete |-> FALSE,
     restored |-> FALSE]

\* An intercepted request: where its strategy stands (pc) and what it handed
\* to respondWith (result).  Recorded with it: the strategy chosen, whether
\* fetch was invoked (fetched), whether a store lookup came before the fetch
\* (lookedFirst), what the network did (outcome, netResp), the responses held
\* under the request when its lookup resolved (looked, held), the baseline
\* pages held when the lookup of './index.html' resolved (fellBack, pages),
\* and whether the store held the network response when the strategy
\* returned it (storedAtReturn).
IdleReq ==
    [pc |-> "idle", request |-> IndexPage, strategy |-> "none",
     fetched |-> FALSE, lookedFirst |-> FALSE, outcome |-> "none",
     netResp |-> Undefined, looked |-> FALSE, held |-> {},
     fellBack |-> FALSE, pages |-> {},
     storedAtReturn |-> FALSE, result |-> Undefined]

(* ------------------------------------------------------------------ *)
(* Page: the containers of the UI and the searches                    *)
(* ------------------------------------------------------------------ *)
\* The loading container (loading), the error container with its title
\* (error; "hidden" when it is not shown) and what the results container
\* holds (results; "" when it is empty).  Recorded with it: the search whose
\* outcome the containers show (of).  The promise of an audio.play() call
\* that has not settled is part of the page as well (audio).
InitialUi ==
    [loading |-> FALSE, error |-> "hidden", results |-> "", of |-> 0,
     audio |-> FALSE]

\* UI.showLoading
ShowLoading(u) == [u EXCEPT !.loading = TRUE, !.error = "hidden", !.results = "", !.of = 0]

\* showError that leaves the results container as it is.
ShowErrorKeepResults(u, title, s) ==
    [u EXCEPT !.loading = FALSE, !.error = title, !.of = s]

\* UI.showError(title, message), called for search s
ShowError(u, title, s) ==
    [u EXCEPT !.loading = FALSE, !.results = "", !.error = title, !.of = s]

\* UI.renderResults(data), called for search s: no data is an error of its
\* own, other data fills the results container.
RenderResults(u, data, s) ==
    IF ~Truthy(data) \/ data = "[]"
    THEN ShowError([u EXCEPT !.loading = FALSE, !.error = "hidden"], "No results", s)
    ELSE [u EXCEPT !.loading = FALSE, !.error = "hidden", !.results = data, !.of = s]

\* A payload that is no array of entries: buildResultsHTML throws on it.
MalformedPayload == "{}"

\* handleSearch without its catch block: an exception of renderResults
\* leaves the page as renderResults left it.
TryRenderUncaught(u, data, s) ==
    IF data = MalformedPayload
    THEN [u EXCEPT !.loading = FALSE, !.error = "hidden"]
    ELSE RenderResults(u, data, s)

\* handleSearch once fetchWord has returned data: renderResults(data) inside
\* the try block.  For a malformed payload renderResults hides the loading
\* and the error container and then throws; the catch block shows the error.
TryRender(u, data, s) ==
    IF data = MalformedPayload
    THEN ShowError([u EXCEPT !.loading = FALSE, !.error = "hidden"],
                   "Search Failed", s)
    ELSE RenderResults(u, data, s)

\* handleSearch invocations of a run
Searches == 1..(MaxCalls + 1)

\* Values of the search input, as sequences of characters.
Inputs ==
    {<<" ">>, <<" ", "H", "i">>, <<"h", "i">>, <<"h", "1">>, <<"n", "o">>}

\* String.prototype.trim
RECURSIVE TrimStart(_)
TrimStart(str) ==
    IF str # <<>> /\ Head(str) = " " THEN TrimStart(Tail(str)) ELSE str

RECURSIVE TrimEnd(_)
TrimEnd(str) ==
    IF str # <<>> /\ str[Len(str)] = " "
    THEN TrimEnd(SubSeq(str, 1, Len(str) - 1))
    ELSE str

Trim(str) == TrimEnd(TrimStart(str))

\* String.prototype.toLowerCase
LowerOf(ch) ==
    CASE ch = "H" -> "h"
      [] ch = "I" -> "i"
      [] ch = "N" -> "n"
      [] ch = "O" -> "o"
      [] OTHER -> ch

ToLowerCase(str) == [i \in 1..Len(str) |-> LowerOf(str[i])]

\* A pattern that accepts digits as well.
ValidPatternWithDigits(str) ==
    /\ str # <<>>
    /\ \A i \in 1..Len(str) :
          str[i] \in {"h", "i", "n", "o", "H", "I", "N", "O", " ", "-", "'", "1"}

\* /^[a-zA-Z\s-']+$/.test(str)
ValidPattern(str) ==
    /\ str # <<>>
    /\ \A i \in 1..Len(str) :
          str[i] \in {"h", "i", "n", "o", "H", "I", "N", "O", " ", "-", "'"}

\* handleSearch, line 608: searchInput.value.trim().toLowerCase()
Normalize(input) == ToLowerCase(Trim(input))

\* The cache key of a word: its characters as the digits of a number, so
\* that different words have different keys.
CharCode(ch) ==
    CASE ch = "h" -> 1 [] ch = "i" -> 2 [] ch = "n" -> 3 [] ch = "o" -> 4
      [] ch = "H" -> 5 [] ch = "I" -> 6 [] ch = "N" -> 7 [] ch = "O" -> 8
      [] ch = " " -> 9 [] ch = "-" -> 10 [] ch = "'" -> 11 [] OTHER -> 12

RECURSIVE KeyOf(_)
KeyOf(str) == IF str = <<>> THEN 0 ELSE CharCode(Head(str)) + 13 * KeyOf(Tail(str))

\* A handleSearch invocation: where it stands (pc), the value of the search
\* input it read, the key it passed to fetchWord and the call slot of that
\* fetchWord invocation.  Recorded with it: the searches that had ended when
\* it was issued (after).
IdleSearch == [pc |-> "idle", input |-> <<>>, word |-> 0, call |-> 0, after |-> {}]

(* ------------------------------------------------------------------ *)
(* State                                                              *)
(* ------------------------------------------------------------------ *)
\* A fetchWord invocation: where it stands (pc), its argument, what it
\* returned (ret) or the message of the Error it threw (err).  Recorded with
\* it: the requests it issued (nreq), what the upstream did (outcome),
\* whether the cache held an unexpired entry for the word when it was called
\* (hadValid) and that entry's payload (held), and whether its own steps
\* changed the cache (changed).
IdleCall ==
    [pc |-> "idle", word |-> 0, nreq |-> 0, hadValid |-> FALSE, held |-> NULL,
     changed |-> FALSE, outcome |-> "none", ret |-> NULL, err |-> NoError]

(* ------------------------------------------------------------------ *)
(* Utils.debounce                                                     *)
(* ------------------------------------------------------------------ *)
\* The closure Utils.debounce(func, delay) returns: timeoutId, undefined
\* (0) at first, and the timers of the event loop that it has set and that
\* have neither fired nor been cleared.  The record also keeps the history
\* of the run: the calls of the wrapper (wcalls: time and arguments) and the
\* invocations of func (invoked: time, arguments, the wrapper call whose
\* timer fired, the number of wrapper calls made by then).
NewDebouncer ==
    [timeoutId |-> 0, timers |-> {}, wcalls |-> <<>>, invoked |-> <<>>]

\* clearTimeout(id): the timer with this id, if it is still set, is dropped;
\* an id that is undefined or has fired clears nothing.
ClearTimeout(timers, id) == {t \in timers : t.id # id}

\* setTimeout(callback, delay) at time t: a new timer, due at t + delay;
\* the id of the timer is the number of the wrapper call that sets it.
SetTimeout(timers, id, args, delay, t) ==
    timers \cup {[id |-> id, due |-> t + delay, args |-> args]}

\* The wrapper without its clearTimeout: every call's timer stays set.
DebouncedNoClear(db, args, delay, t) ==
    LET id == Len(db.wcalls) + 1
    IN  [db EXCEPT !.timers = SetTimeout(@, id, args, delay, t),
                   !.timeoutId = id,
                   !.wcalls = Append(@, [at |-> t, args |-> args])]

\* The wrapper called with args at time t: clearTimeout(timeoutId), then
\* timeoutId = setTimeout(() => func.apply(this, args), delay).
Debounced(db, args, delay, t) ==
    LET id == Len(db.wcalls) + 1
    IN  [db EXCEPT !.timers = SetTimeout(ClearTimeout(@, db.timeoutId), id,
                                         args, delay, t),
                   !.timeoutId = id,
                   !.wcalls = Append(@, [at |-> t, args |-> args])]

\* ret is the value the latest direct get returned; ops counts the operations
\* that changed the cache.
Count(changed) == IF changed THEN ops + 1 ELSE ops

Init ==
    /\ cache = <<>>
    /\ now = 0
    /\ calls = [c \in Calls |-> IdleCall]
    /\ ret = NULL
    /\ ops = 0
    /\ stores = <<>>
    /\ puts = {}
    /\ reqs = [i \in Reqs |-> IdleReq]
    /\ sw = NewWorker
    /\ link = [c \in Calls |-> 0]
    /\ ui = InitialUi
    /\ searches = [s \in Searches |-> IdleSearch]
    /\ debouncer = NewDebouncer

(* ------------------------------------------------------------------ *)
(* Operations                                                         *)
(* ------------------------------------------------------------------ *)
\* The session's first lookups: n set calls in a row.
Preload(n) ==
    /\ cache = <<>>
    /\ ops = 0
    /\ cache' = Fill(n, now)
    /\ UNCHANGED <<now, calls, ret, ops, swvars>>

\* Date.now() advances.
Tick(d) ==
    /\ now + d <= MaxNow
    /\ now' = now + d
    /\ UNCHANGED <<cache, calls, ret, ops, swvars>>

\* CacheManager.get(key)
Get(k) ==
    /\ cache' = CacheGetCache(cache, k, now)
    /\ ret' = CacheGetRet(cache, k, now)
    /\ ops' = Count(cache' # cache)
    /\ ops' <= MaxOps
    /\ UNCHANGED <<now, calls, swvars>>

\* CacheManager.set(key, data)
Set(k, d) ==
    /\ ops < MaxOps
    /\ cache' = CacheSet(cache, k, d, now)
    /\ ops' = ops + 1
    /\ UNCHANGED <<now, calls, ret, swvars>>

\* CacheManager.clear()
Clear ==
    /\ ops < MaxOps
    /\ cache' = CacheClear(cache)
    /\ ops' = ops + 1
    /\ UNCHANGED <<now, calls, ret, swvars>>

(* ------------------------------------------------------------------ *)
(* APIService.fetchWord                                               *)
(* ------------------------------------------------------------------ *)
\* What the catch block of fetchWord throws for a caught error message.
CatchRethrow(msg) ==
    IF Includes(msg, <<"Failed", "to", "fetch">>) THEN MsgUnableToConnect ELSE msg

\* What the try block throws for a response that is not ok.
StatusError(status) ==
    IF status = 404 THEN MsgNotFound ELSE MsgNetwork

\* The invocation ends by throwing an Error with this message.
Throw(c, outcome, msg) ==
    calls' = [calls EXCEPT ![c].pc = "threw", ![c].outcome = outcome,
                           ![c].err = msg]

\* fetchWord(word) up to its first await: the cache lookup, then either the
\* return of the cached data or the network request.
FetchWordCall(c, w) ==
    LET cachedData == CacheGetRet(cache, w, now)
        valid == { i \in 1..Len(cache) :
                     /\ cache[i].key = w
                     /\ now - cache[i].timestamp <= CACHE_DURATION }
        started == [calls[c] EXCEPT
                      !.word = w,
                      !.hadValid = valid # {},
                      !.held = IF valid = {} THEN NULL
                               ELSE cache[CHOOSE i \in valid : TRUE].data,
                      !.changed = CacheGetCache(cache, w, now) # cache]
    IN  /\ calls[c].pc = "idle"
        \* invocations take the call slots in order
        /\ \A b \in Calls : b < c => calls[b].pc # "idle"
        /\ cache' = CacheGetCache(cache, w, now)
        /\ ops' = Count(cache' # cache)
        /\ ops' <= MaxOps
        /\ IF Truthy(cachedData)
           THEN calls' = [calls EXCEPT ![c] =
                            [started EXCEPT !.pc = "returned", !.outcome = "hit",
                                            !.ret = cachedData]]
           ELSE calls' = [calls EXCEPT ![c] =
                            [started EXCEPT !.pc = "fetch", !.nreq = @ + 1]]
        /\ UNCHANGED <<now, ret, swvars>>

\* FetchReject with a retry: the catch block issues the request again.
FetchRejectRetry(c, msg) ==
    /\ calls[c].pc = "fetch"
    /\ calls[c].nreq < 2
    /\ calls' = [calls EXCEPT ![c].nreq = @ + 1]
    /\ UNCHANGED <<cache, now, ret, ops, swvars>>

\* await fetch(...) rejects: the catch block.
FetchReject(c, msg) ==
    /\ calls[c].pc = "fetch"
    /\ Throw(c, "reject", CatchRethrow(msg))
    /\ UNCHANGED <<cache, now, ret, ops, swvars>>

\* await fetch(...) resolves with a response of the given status.
FetchResponse(c, status) ==
    /\ calls[c].pc = "fetch"
    /\ IF ~ResponseOk(status)
       THEN Throw(c, IF status = 404 THEN "notfound" ELSE "status",
                  CatchRethrow(StatusError(status)))
       ELSE calls' = [calls EXCEPT ![c].pc = "json"]
    /\ UNCHANGED <<cache, now, ret, ops, swvars>>

\* JsonResolve without the CacheManager.set call.
JsonResolveNoStore(c, data) ==
    /\ calls[c].pc = "json"
    /\ ops < MaxOps
    /\ calls' = [calls EXCEPT ![c].pc = "returned", ![c].outcome = "ok",
                              ![c].ret = data]
    /\ ops' = ops + 1
    /\ UNCHANGED <<cache, now, ret, swvars>>

\* await response.json() resolves with the decoded body: store and return.
JsonResolve(c, data) ==
    /\ calls[c].pc = "json"
    /\ ops < MaxOps
    /\ cache' = CacheSet(cache, calls[c].word, data, now)
    /\ calls' = [calls EXCEPT ![c].pc = "returned", ![c].outcome = "ok",
                              ![c].ret = data,
                              ![c].changed = @ \/ cache' # cache]
    /\ ops' = ops + 1
    /\ UNCHANGED <<now, ret, swvars>>

\* await response.json() rejects (the body is no JSON): the catch block.
JsonReject(c) ==
    /\ calls[c].pc = "json"
    /\ Throw(c, "badjson", CatchRethrow(MsgSyntax))
    /\ UNCHANGED <<cache, now, ret, ops, swvars>>

\* The application: the cache is driven by fetchWord alone.
Next ==
    \/ \E n \in PreloadSizes : Preload(n) /\ UNCHANGED pagevars
    \/ \E d \in Deltas : Tick(d) /\ UNCHANGED pagevars
    \/ \E c \in Calls, w \in FetchWords : FetchWordCall(c, w) /\ UNCHANGED pagevars
    \/ \E c \in Calls, msg \in FetchRejections : FetchReject(c, msg) /\ UNCHANGED pagevars
    \/ \E c \in Calls, status \in Statuses : FetchResponse(c, status) /\ UNCHANGED pagevars
    \/ \E c \in Calls, d \in Bodies : JsonResolve(c, d) /\ UNCHANGED pagevars
    \/ \E c \in Calls : JsonReject(c) /\ UNCHANGED pagevars

Spec == Init /\ [][Next]_vars

\* CacheManager on its own: any sequence of get, set and clear.
NextCache ==
    \/ \E n \in PreloadSizes : Preload(n) /\ UNCHANGED pagevars
    \/ \E d \in Deltas : Tick(d) /\ UNCHANGED pagevars
    \/ \E k \in Words : Get(k) /\ UNCHANGED pagevars
    \/ \E k \in Words, d \in Payloads : Set(k, d) /\ UNCHANGED pagevars
    \/ Clear /\ UNCHANGED pagevars

SpecCache == Init /\ [][NextCache]_vars

(* ------------------------------------------------------------------ *)
(* Service worker: fetch listener and the two strategies              *)
(* ------------------------------------------------------------------ *)
\* The responses stored under a request in any cache.
Held(ss, rq) ==
    {ss[i].entries[rq][1] : i \in {j \in 1..Len(ss) : ss[j].entries[rq] # Undefined}}

\* A 'fetch' listener that hands every request to cacheFirstStrategy.
FetchEventAllCacheFirst(i, rq) ==
    /\ reqs[i].pc = "idle"
    /\ \A j \in Reqs : j < i => reqs[j].pc # "idle"
    /\ reqs' = [reqs EXCEPT ![i] =
                   [@ EXCEPT !.pc = "match", !.request = rq,
                             !.strategy = "cacheFirst"]]
    /\ UNCHANGED <<cache, now, calls, ret, ops, stores, puts, sw>>

\* The 'fetch' listener: API requests go to networkFirstStrategy, which
\* invokes fetch at once; all others go to cacheFirstStrategy, which starts
\* with caches.match.  Slots are taken in order.
FetchEvent(i, rq) ==
    /\ reqs[i].pc = "idle"
    /\ \A j \in Reqs : j < i => reqs[j].pc # "idle"
    /\ reqs' = [reqs EXCEPT ![i] =
                   IF rq.origin = API_ORIGIN
                   THEN [@ EXCEPT !.pc = "fetch", !.request = rq,
                                  !.strategy = "networkFirst", !.fetched = TRUE]
                   ELSE [@ EXCEPT !.pc = "match", !.request = rq,
                                  !.strategy = "cacheFirst"]]
    /\ UNCHANGED <<cache, now, calls, ret, ops, stores, puts, sw>>

\* cacheFirstStrategy that goes to the network also on a store hit.
CacheFirstMatchRevalidate(i) ==
    /\ reqs[i].pc = "match"
    /\ reqs[i].strategy = "cacheFirst"
    /\ reqs' = [reqs EXCEPT ![i] =
                   [@ EXCEPT !.pc = "fetch", !.fetched = TRUE, !.lookedFirst = TRUE,
                             !.looked = TRUE,
                             !.held = Held(stores, reqs[i].request)]]
    /\ UNCHANGED <<cache, now, calls, ret, ops, stores, puts, sw>>

\* cacheFirstStrategy, caches.match(request) resolves: a hit is returned, a
\* miss invokes fetch(request).
CacheFirstMatch(i) ==
    /\ reqs[i].pc = "match"
    /\ reqs[i].strategy = "cacheFirst"
    /\ LET cachedResponse == CachesMatch(stores, reqs[i].request)
       IN reqs' = [reqs EXCEPT ![i] =
                     IF cachedResponse # Undefined
                     THEN [@ EXCEPT !.pc = "returned", !.result = cachedResponse,
                                    !.outcome = "hit", !.looked = TRUE,
                                    !.held = Held(stores, reqs[i].request)]
                     ELSE [@ EXCEPT !.pc = "fetch", !.fetched = TRUE,
                                    !.lookedFirst = TRUE, !.looked = TRUE,
                                    !.held = Held(stores, reqs[i].request)]]
    /\ UNCHANGED <<cache, now, calls, ret, ops, stores, puts, sw>>

\* A strategy that stores every response it receives, whatever its status.
StrategyFetchResolveAnyStatus(i, strategy, name, status, body) ==
    /\ reqs[i].pc = "fetch"
    /\ reqs[i].strategy = strategy
    /\ reqs' = [reqs EXCEPT ![i] =
                   [@ EXCEPT !.pc = "open", !.outcome = "response",
                             !.netResp = Some(NetResponse(status, body))]]
    /\ UNCHANGED <<cache, now, calls, ret, ops, stores, puts, sw>>

\* fetch(request) resolves in either strategy: a response of status 200 goes
\* on to caches.open, any other response is returned as it is.
StrategyFetchResolve(i, strategy, name, status, body) ==
    /\ reqs[i].pc = "fetch"
    /\ reqs[i].strategy = strategy
    /\ LET networkResponse == NetResponse(status, body)
       IN reqs' = [reqs EXCEPT ![i] =
                     IF networkResponse.status = 200
                     THEN [@ EXCEPT !.pc = "open", !.outcome = "response",
                                    !.netResp = Some(networkResponse)]
                     ELSE [@ EXCEPT !.pc = "returned", !.outcome = "response",
                                    !.netResp = Some(networkResponse),
                                    !.result = Some(networkResponse),
                                    !.storedAtReturn =
                                        (CachesMatchIn(stores, name, reqs[i].request)
                                            = Some(networkResponse))]]
    /\ UNCHANGED <<cache, now, calls, ret, ops, stores, puts, sw>>

\* caches.open(name) resolves in either strategy: cache.put is called with a
\* clone of the response and is not awaited; the response is returned.
StrategyPut(i, strategy, name) ==
    /\ reqs[i].pc = "open"
    /\ reqs[i].strategy = strategy
    /\ stores' = CachesOpen(stores, name)
    /\ puts' = puts \cup {[id |-> i, name |-> name, request |-> reqs[i].request,
                            response |-> reqs[i].netResp[1], orphan |-> FALSE]}
    /\ reqs' = [reqs EXCEPT ![i] =
                   [@ EXCEPT !.pc = "returned", !.result = reqs[i].netResp,
                             !.storedAtReturn =
                                 (CachesMatchIn(stores', name, reqs[i].request)
                                     = reqs[i].netResp)]]
    /\ UNCHANGED <<cache, now, calls, ret, ops, sw>>

\* cacheFirstStrategy, lines 795-803
CacheFirstFetchResolve(i, status, body) ==
    StrategyFetchResolve(i, "cacheFirst", CACHE_NAME, status, body)

\* cacheFirstStrategy that writes to the runtime cache.
CacheFirstPutRuntime(i) == StrategyPut(i, "cacheFirst", RUNTIME_CACHE)

CacheFirstPut(i) == StrategyPut(i, "cacheFirst", CACHE_NAME)

\* cacheFirstStrategy, fetch(request) throws: the catch block returns the
\* promise of caches.match('./index.html').
CacheFirstFetchReject(i) ==
    /\ reqs[i].pc = "fetch"
    /\ reqs[i].strategy = "cacheFirst"
    /\ reqs' = [reqs EXCEPT ![i] =
                   [@ EXCEPT !.pc = "fallback", !.outcome = "rejected"]]
    /\ UNCHANGED <<cache, now, calls, ret, ops, stores, puts, sw>>

\* cacheFirstStrategy, caches.match('./index.html') resolves, with the
\* stored page or with undefined: the strategy returns what it resolved to.
CacheFirstFallback(i) ==
    /\ reqs[i].pc = "fallback"
    /\ reqs[i].strategy = "cacheFirst"
    /\ reqs' = [reqs EXCEPT ![i] =
                   [@ EXCEPT !.pc = "returned",
                             !.result = CachesMatch(stores, IndexPage),
                             !.fellBack = TRUE,
                             !.pages = Held(stores, IndexPage)]]
    /\ UNCHANGED <<cache, now, calls, ret, ops, stores, puts, sw>>

\* networkFirstStrategy that looks into the store when the response is not
\* a success.
NetworkFirstFetchResolveStale(i, status, body) ==
    /\ reqs[i].pc = "fetch"
    /\ reqs[i].strategy = "networkFirst"
    /\ LET networkResponse == NetResponse(status, body)
       IN reqs' = [reqs EXCEPT ![i] =
                     IF networkResponse.status = 200
                     THEN [@ EXCEPT !.pc = "open", !.outcome = "response",
                                    !.netResp = Some(networkResponse)]
                     ELSE [@ EXCEPT !.pc = "match", !.outcome = "response",
                                    !.netResp = Some(networkResponse)]]
    /\ UNCHANGED <<cache, now, calls, ret, ops, stores, puts, sw>>

\* networkFirstStrategy, lines 822-830
NetworkFirstFetchResolve(i, status, body) ==
    StrategyFetchResolve(i, "networkFirst", RUNTIME_CACHE, status, body)

\* networkFirstStrategy that writes to the static cache.
NetworkFirstPutStatic(i) == StrategyPut(i, "networkFirst", CACHE_NAME)

NetworkFirstPut(i) == StrategyPut(i, "networkFirst", RUNTIME_CACHE)

\* networkFirstStrategy that drops the runtime cache when fetch throws.
NetworkFirstFetchRejectEvicts(i) ==
    /\ reqs[i].pc = "fetch"
    /\ reqs[i].strategy = "networkFirst"
    /\ reqs' = [reqs EXCEPT ![i] = [@ EXCEPT !.pc = "match", !.outcome = "rejected"]]
    /\ stores' = CachesDelete(stores, RUNTIME_CACHE)
    /\ UNCHANGED <<cache, now, calls, ret, ops, puts, sw>>

\* networkFirstStrategy, fetch(request) throws: the catch block awaits
\* caches.match(request).
NetworkFirstFetchReject(i) ==
    /\ reqs[i].pc = "fetch"
    /\ reqs[i].strategy = "networkFirst"
    /\ reqs' = [reqs EXCEPT ![i] = [@ EXCEPT !.pc = "match", !.outcome = "rejected"]]
    /\ UNCHANGED <<cache, now, calls, ret, ops, stores, puts, sw>>

\* networkFirstStrategy that answers every failed fetch with the offline
\* response, without a store lookup.
NetworkFirstMatchOfflineOnly(i) ==
    /\ reqs[i].pc = "match"
    /\ reqs[i].strategy = "networkFirst"
    /\ reqs' = [reqs EXCEPT ![i] =
                   [@ EXCEPT !.pc = "returned", !.result = Some(OfflineResponse),
                             !.looked = TRUE,
                             !.held = Held(stores, reqs[i].request)]]
    /\ UNCHANGED <<cache, now, calls, ret, ops, stores, puts, sw>>

\* networkFirstStrategy that looks for the stored response in the static
\* cache only.
NetworkFirstMatchStaticOnly(i) ==
    /\ reqs[i].pc = "match"
    /\ reqs[i].strategy = "networkFirst"
    /\ LET cachedResponse == CachesMatchIn(stores, CACHE_NAME, reqs[i].request)
       IN reqs' = [reqs EXCEPT ![i] =
                     IF cachedResponse # Undefined
                     THEN [@ EXCEPT !.pc = "returned", !.result = cachedResponse,
                                    !.looked = TRUE,
                                    !.held = Held(stores, reqs[i].request)]
                     ELSE [@ EXCEPT !.pc = "returned",
                                    !.result = Some(OfflineResponse),
                                    !.looked = TRUE,
                                    !.held = Held(stores, reqs[i].request)]]
    /\ UNCHANGED <<cache, now, calls, ret, ops, stores, puts, sw>>

\* networkFirstStrategy that rethrows when nothing is stored.
NetworkFirstMatchRethrow(i) ==
    /\ reqs[i].pc = "match"
    /\ reqs[i].strategy = "networkFirst"
    /\ LET cachedResponse == CachesMatch(stores, reqs[i].request)
       IN reqs' = [reqs EXCEPT ![i] =
                     IF cachedResponse # Undefined
                     THEN [@ EXCEPT !.pc = "returned", !.result = cachedResponse,
                                    !.looked = TRUE,
                                    !.held = Held(stores, reqs[i].request)]
                     ELSE [@ EXCEPT !.pc = "threw", !.looked = TRUE,
                                    !.held = Held(stores, reqs[i].request)]]
    /\ UNCHANGED <<cache, now, calls, ret, ops, stores, puts, sw>>

\* networkFirstStrategy, caches.match(request) resolves: a hit is returned,
\* on a miss the offline response is built and returned.
NetworkFirstMatch(i) ==
    /\ reqs[i].pc = "match"
    /\ reqs[i].strategy = "networkFirst"
    /\ LET cachedResponse == CachesMatch(stores, reqs[i].request)
       IN reqs' = [reqs EXCEPT ![i] =
                     IF cachedResponse # Undefined
                     THEN [@ EXCEPT !.pc = "returned", !.result = cachedResponse,
                                    !.looked = TRUE,
                                    !.held = Held(stores, reqs[i].request)]
                     ELSE [@ EXCEPT !.pc = "returned",
                                    !.result = Some(OfflineResponse),
                                    !.looked = TRUE,
                                    !.held = Held(stores, reqs[i].request)]]
    /\ UNCHANGED <<cache, now, calls, ret, ops, stores, puts, sw>>

\* A cache.put in flight completes: the response is stored in the cache that
\* caches.open gave, which is out of CacheStorage when it was deleted since.
PutDone(p) ==
    /\ p \in puts
    /\ stores' = IF p.orphan THEN stores
                  ELSE CachePut(stores, p.name, p.request, p.response)
    /\ puts' = puts \ {p}
    /\ sw' = [sw EXCEPT !.restored = @ \/ (sw.clear # "idle" /\ ~p.orphan)]
    /\ UNCHANGED <<cache, now, calls, ret, ops, reqs>>

\* A cache.put in flight rejects (the quota is exceeded): nothing is stored,
\* and nothing handles the rejection.
PutFail(p) ==
    /\ p \in puts
    /\ puts' = puts \ {p}
    /\ UNCHANGED <<cache, now, calls, ret, ops, stores, reqs, sw>>

\* The service worker under any interleaving of intercepted requests.
NextSW ==
    \/ \E i \in Reqs, rq \in SwRequests : FetchEvent(i, rq) /\ UNCHANGED pagevars
    \/ \E i \in Reqs : CacheFirstMatch(i) /\ UNCHANGED pagevars
    \/ \E i \in Reqs, status \in SwStatuses, body \in Versions :
          CacheFirstFetchResolve(i, status, body) /\ UNCHANGED pagevars
    \/ \E i \in Reqs : CacheFirstPut(i) /\ UNCHANGED pagevars
    \/ \E i \in Reqs : CacheFirstFetchReject(i) /\ UNCHANGED pagevars
    \/ \E i \in Reqs : CacheFirstFallback(i) /\ UNCHANGED pagevars
    \/ \E i \in Reqs, status \in SwStatuses, body \in Versions :
          NetworkFirstFetchResolve(i, status, body) /\ UNCHANGED pagevars
    \/ \E i \in Reqs : NetworkFirstPut(i) /\ UNCHANGED pagevars
    \/ \E i \in Reqs : NetworkFirstFetchReject(i) /\ UNCHANGED pagevars
    \/ \E i \in Reqs : NetworkFirstMatch(i) /\ UNCHANGED pagevars
    \/ \E p \in puts : PutDone(p) /\ UNCHANGED pagevars
    \/ \E p \in puts : PutFail(p) /\ UNCHANGED pagevars

SpecSW == Init /\ [][NextSW]_vars

(* ------------------------------------------------------------------ *)
(* Service worker: install, activate, messages                        *)
(* ------------------------------------------------------------------ *)
\* CacheStorage as an earlier deployment left it.
OldVersion(ss) ==
    /\ sw.phase = "parsed"
    /\ stores = <<>>
    /\ stores' = ss
    /\ UNCHANGED <<cache, now, calls, ret, ops, puts, reqs, sw>>

\* Every asset of the manifest is stored in the static cache.
ManifestStored(ss) ==
    \A rq \in STATIC_ASSETS : CachesMatchIn(ss, CACHE_NAME, rq) # Undefined

\* The 'install' listener: caches.open(CACHE_NAME) is called.
InstallEvent ==
    /\ sw.phase = "parsed"
    /\ sw' = [sw EXCEPT !.phase = "installing"]
    /\ UNCHANGED <<cache, now, calls, ret, ops, stores, puts, reqs>>

\* caches.open resolves: cache.addAll(STATIC_ASSETS) is called.
InstallOpened ==
    /\ sw.phase = "installing"
    /\ stores' = CachesOpen(stores, CACHE_NAME)
    /\ sw' = [sw EXCEPT !.phase = "addAll", !.detached = FALSE]
    /\ UNCHANGED <<cache, now, calls, ret, ops, puts, reqs>>

\* cache.addAll resolves: every asset was fetched and is stored;
\* skipWaiting() is called and the promise given to waitUntil resolves.
InstallAddAllResolve(body) ==
    /\ sw.phase = "addAll"
    /\ stores' = IF sw.detached THEN stores
                  ELSE CacheAddAll(stores, CACHE_NAME, body)
    /\ sw' = [sw EXCEPT !.phase = "installed", !.skipWaiting = TRUE,
                         !.addAll = "ok", !.complete = ManifestStored(stores')]
    /\ UNCHANGED <<cache, now, calls, ret, ops, puts, reqs>>

\* cache.addAll rejects (an asset could not be fetched or stored): nothing
\* is stored; the catch handler logs the error, so the promise given to
\* waitUntil resolves all the same, without skipWaiting().
InstallAddAllReject ==
    /\ sw.phase = "addAll"
    /\ sw' = [sw EXCEPT !.phase = "installed", !.addAll = "failed",
                         !.complete = ManifestStored(stores)]
    /\ UNCHANGED <<cache, now, calls, ret, ops, stores, puts, reqs>>

\* The 'activate' listener: caches.keys() is called.
ActivateEvent ==
    /\ sw.phase = "installed"
    /\ sw' = [sw EXCEPT !.phase = "activating"]
    /\ UNCHANGED <<cache, now, calls, ret, ops, stores, puts, reqs>>

\* An activate listener that keeps the static cache only.
ActivateKeysStaticOnly ==
    /\ sw.phase = "activating"
    /\ sw' = [sw EXCEPT !.phase = "deleting",
                         !.doomed = {n \in CachesKeys(stores) : n # CACHE_NAME}]
    /\ UNCHANGED <<cache, now, calls, ret, ops, stores, puts, reqs>>

\* caches.keys() resolves: caches.delete is called for every name that is
\* neither CACHE_NAME nor RUNTIME_CACHE.
ActivateKeys ==
    /\ sw.phase = "activating"
    /\ sw' = [sw EXCEPT !.phase = "deleting",
                         !.doomed = {n \in CachesKeys(stores) :
                                        n # CACHE_NAME /\ n # RUNTIME_CACHE}]
    /\ UNCHANGED <<cache, now, calls, ret, ops, stores, puts, reqs>>

\* One caches.delete of the activate listener completes.
ActivateDelete(n) ==
    /\ sw.phase = "deleting"
    /\ n \in sw.doomed
    /\ stores' = CachesDelete(stores, n)
    /\ puts' = Orphaned(puts, n)
    /\ sw' = [sw EXCEPT !.doomed = @ \ {n}]
    /\ UNCHANGED <<cache, now, calls, ret, ops, reqs>>

\* Promise.all resolves: clients.claim() is called and activation is
\* complete.
ActivateDone ==
    /\ sw.phase = "deleting"
    /\ sw.doomed = {}
    /\ sw' = [sw EXCEPT !.phase = "activated"]
    /\ UNCHANGED <<cache, now, calls, ret, ops, stores, puts, reqs>>

\* The 'message' listener, type SKIP_WAITING: skipWaiting() is called.
SkipWaitingMessage ==
    /\ sw.phase # "parsed"
    /\ ~sw.skipWaiting
    /\ sw' = [sw EXCEPT !.skipWaiting = TRUE]
    /\ UNCHANGED <<cache, now, calls, ret, ops, stores, puts, reqs>>

\* The 'message' listener, type CLEAR_CACHE: caches.keys() is called.  A run
\* has one such message.
ClearCacheMessage ==
    /\ sw.phase # "parsed"
    /\ sw.clear = "idle"
    /\ sw' = [sw EXCEPT !.clear = "keys"]
    /\ UNCHANGED <<cache, now, calls, ret, ops, stores, puts, reqs>>

\* A message listener that spares the caches of the current version.
ClearCacheKeysOld ==
    /\ sw.clear = "keys"
    /\ sw' = [sw EXCEPT !.clear = "deleting",
                         !.names = {n \in CachesKeys(stores) :
                                       n # CACHE_NAME /\ n # RUNTIME_CACHE}]
    /\ UNCHANGED <<cache, now, calls, ret, ops, stores, puts, reqs>>

\* caches.keys() resolves: caches.delete is called for every name.
ClearCacheKeys ==
    /\ sw.clear = "keys"
    /\ sw' = [sw EXCEPT !.clear = "deleting", !.names = CachesKeys(stores)]
    /\ UNCHANGED <<cache, now, calls, ret, ops, stores, puts, reqs>>

\* One caches.delete of the message listener completes.
ClearCacheDelete(n) ==
    /\ sw.clear = "deleting"
    /\ n \in sw.names
    /\ stores' = CachesDelete(stores, n)
    /\ puts' = Orphaned(puts, n)
    /\ sw' = [sw EXCEPT !.names = @ \ {n},
                         !.detached = @ \/ (n = CACHE_NAME /\ sw.phase = "addAll")]
    /\ UNCHANGED <<cache, now, calls, ret, ops, reqs>>

\* Promise.all resolves: the message is handled.
ClearCacheDone ==
    /\ sw.clear = "deleting"
    /\ sw.names = {}
    /\ sw' = [sw EXCEPT !.clear = "done"]
    /\ UNCHANGED <<cache, now, calls, ret, ops, stores, puts, reqs>>

\* Fetch events are dispatched to the activated worker only.
WorkerFetchEvent(i, rq) ==
    /\ sw.phase = "activated"
    /\ FetchEvent(i, rq)

\* The requests of a page that the worker controls.
WorkerRequests == {IndexPage, ApiLookup}

\* The service worker from its installation on.  The network answers the
\* strategies with the body "v2", which neither the earlier deployment nor
\* the install has stored.
NextWorker ==
    \/ \E ss \in OldStores : OldVersion(ss) /\ UNCHANGED pagevars
    \/ InstallEvent /\ UNCHANGED pagevars
    \/ InstallOpened /\ UNCHANGED pagevars
    \/ InstallAddAllResolve("v1") /\ UNCHANGED pagevars
    \/ InstallAddAllReject /\ UNCHANGED pagevars
    \/ ActivateEvent /\ UNCHANGED pagevars
    \/ ActivateKeys /\ UNCHANGED pagevars
    \/ \E n \in CachesKeys(stores) : ActivateDelete(n) /\ UNCHANGED pagevars
    \/ ActivateDone /\ UNCHANGED pagevars
    \/ SkipWaitingMessage /\ UNCHANGED pagevars
    \/ ClearCacheMessage /\ UNCHANGED pagevars
    \/ ClearCacheKeys /\ UNCHANGED pagevars
    \/ \E n \in CachesKeys(stores) : ClearCacheDelete(n) /\ UNCHANGED pagevars
    \/ ClearCacheDone /\ UNCHANGED pagevars
    \/ \E i \in Reqs, rq \in WorkerRequests : WorkerFetchEvent(i, rq) /\ UNCHANGED pagevars
    \/ \E i \in Reqs : CacheFirstMatch(i) /\ UNCHANGED pagevars
    \/ \E i \in Reqs, status \in SwStatuses :
          CacheFirstFetchResolve(i, status, "v2") /\ UNCHANGED pagevars
    \/ \E i \in Reqs : CacheFirstPut(i) /\ UNCHANGED pagevars
    \/ \E i \in Reqs : CacheFirstFetchReject(i) /\ UNCHANGED pagevars
    \/ \E i \in Reqs : CacheFirstFallback(i) /\ UNCHANGED pagevars
    \/ \E i \in Reqs, status \in SwStatuses :
          NetworkFirstFetchResolve(i, status, "v2") /\ UNCHANGED pagevars
    \/ \E i \in Reqs : NetworkFirstPut(i) /\ UNCHANGED pagevars
    \/ \E i \in Reqs : NetworkFirstFetchReject(i) /\ UNCHANGED pagevars
    \/ \E i \in Reqs : NetworkFirstMatch(i) /\ UNCHANGED pagevars
    \/ \E p \in puts : PutDone(p) /\ UNCHANGED pagevars
    \/ \E p \in puts : PutFail(p) /\ UNCHANGED pagevars

SpecWorker == Init /\ [][NextWorker]_vars

(* ------------------------------------------------------------------ *)
(* The page under the service worker                                  *)
(* ------------------------------------------------------------------ *)
\* The word that the page looks up, before and after its reload.
PageWords == {1}

\* A page that the worker controls calls fetchWord(w), once the call before
\* it has settled.
PageFetchWord(c, w) ==
    /\ sw.phase = "activated"
    /\ \A b \in Calls : calls[b].pc \in {"idle", "returned", "threw"}
    /\ FetchWordCall(c, w)
    /\ UNCHANGED pagevars

\* The fetch of call c reaches the worker as a fetch event.
PageIntercept(c, i) ==
    /\ calls[c].pc = "fetch"
    /\ link[c] = 0
    /\ FetchEvent(i, ApiRequest(calls[c].word))
    /\ link' = [link EXCEPT ![c] = i]
    /\ UNCHANGED <<ui, searches, debouncer>>

\* The response that the worker's strategy returned resolves the fetch of
\* call c.
PageResponse(c) ==
    /\ link[c] # 0
    /\ reqs[link[c]].pc = "returned"
    /\ reqs[link[c]].result # Undefined
    /\ FetchResponse(c, reqs[link[c]].result[1].status)
    /\ UNCHANGED pagevars

\* response.json() resolves with the value that the body of that response
\* denotes.
PageJson(c) ==
    /\ link[c] # 0
    /\ reqs[link[c]].result # Undefined
    /\ JsonResolve(c, reqs[link[c]].result[1].body)
    /\ UNCHANGED pagevars

\* Time passes while the page is open.
PageTick(d) ==
    /\ sw.phase = "activated"
    /\ Tick(d)
    /\ UNCHANGED pagevars

\* The page posts CLEAR_CACHE to the worker that controls it.
PageClearCache ==
    /\ sw.phase = "activated"
    /\ ClearCacheMessage
    /\ UNCHANGED pagevars

\* The page is reloaded while no fetchWord call is in flight: the Map of
\* CacheManager starts empty again, CacheStorage stays.
Reload ==
    /\ cache # <<>>
    /\ \A c \in Calls : calls[c].pc \in {"idle", "returned", "threw"}
    /\ cache' = <<>>
    /\ UNCHANGED <<now, calls, ret, ops, swvars, pagevars>>

\* The application on a page that the service worker controls: the requests
\* of fetchWord go through networkFirstStrategy.
NextPage ==
    \/ OldVersion(<<OldStatic>>) /\ UNCHANGED pagevars
    \/ InstallEvent /\ UNCHANGED pagevars
    \/ InstallOpened /\ UNCHANGED pagevars
    \/ InstallAddAllResolve("v1") /\ UNCHANGED pagevars
    \/ InstallAddAllReject /\ UNCHANGED pagevars
    \/ ActivateEvent /\ UNCHANGED pagevars
    \/ ActivateKeys /\ UNCHANGED pagevars
    \/ \E n \in CachesKeys(stores) : ActivateDelete(n) /\ UNCHANGED pagevars
    \/ ActivateDone /\ UNCHANGED pagevars
    \/ PageClearCache
    \/ ClearCacheKeys /\ UNCHANGED pagevars
    \/ \E n \in CachesKeys(stores) : ClearCacheDelete(n) /\ UNCHANGED pagevars
    \/ ClearCacheDone /\ UNCHANGED pagevars
    \/ PageTick(CACHE_DURATION + 1)
    \/ \E c \in Calls, w \in PageWords : PageFetchWord(c, w)
    \/ \E c \in Calls, i \in Reqs : PageIntercept(c, i)
    \/ \E i \in Reqs, status \in SwStatuses, body \in Bodies :
          NetworkFirstFetchResolve(i, status, body) /\ UNCHANGED pagevars
    \/ \E i \in Reqs : NetworkFirstPut(i) /\ UNCHANGED pagevars
    \/ \E i \in Reqs : NetworkFirstFetchReject(i) /\ UNCHANGED pagevars
    \/ \E i \in Reqs : NetworkFirstMatch(i) /\ UNCHANGED pagevars
    \/ \E p \in puts : PutDone(p) /\ UNCHANGED pagevars
    \/ \E p \in puts : PutFail(p) /\ UNCHANGED pagevars
    \/ \E c \in Calls : PageResponse(c)
    \/ \E c \in Calls : PageJson(c)
    \/ Reload

SpecPage == Init /\ [][NextPage]_vars

(* ------------------------------------------------------------------ *)
(* App.handleSearch                                                   *)
(* ------------------------------------------------------------------ *)
\* The searches that have ended.
Ended == {t \in Searches : searches[t].pc = "done"}

\* handleSearch up to its await: the input is read and normalized; an empty
\* or invalid word shows an error and returns; otherwise the loading state
\* is shown and fetchWord is called.  When fetchWord returns from the cache,
\* the results are rendered before anything else runs.
HandleSearch(s, input) ==
    LET word == Normalize(input)
    IN  /\ searches[s].pc = "idle"
        /\ \A t \in Searches : t < s => searches[t].pc # "idle"
        /\ IF word = <<>> \/ ~ValidPattern(word)
           THEN /\ ui' = ShowError(ui, IF word = <<>> THEN "Empty Input"
                                       ELSE "Invalid Input", s)
                /\ searches' = [searches EXCEPT ![s] =
                                   [pc |-> "done", input |-> input, word |-> 0,
                                    call |-> 0, after |-> Ended]]
                /\ UNCHANGED <<cache, now, calls, ret, ops, swvars, link, debouncer>>
           ELSE \E c \in Calls :
                /\ FetchWordCall(c, KeyOf(word))
                /\ ui' = IF calls'[c].pc = "returned"
                          THEN TryRender(ShowLoading(ui), calls'[c].ret, s)
                          ELSE ShowLoading(ui)
                /\ searches' = [searches EXCEPT ![s] =
                                   [pc |-> IF calls'[c].pc = "returned"
                                           THEN "done" ELSE "pending",
                                    input |-> input, word |-> KeyOf(word),
                                    call |-> c, after |-> Ended]]
                /\ UNCHANGED <<link, debouncer>>

\* The fetchWord call of search s throws: the catch block of handleSearch
\* shows the error.
SearchFailed(s) ==
    /\ ui' = ShowError(ui, "Search Failed", s)
    /\ searches' = [searches EXCEPT ![s].pc = "done"]
    /\ UNCHANGED <<link, debouncer>>

\* fetch rejects for the call of search s.
SearchFetchReject(s, msg) ==
    /\ searches[s].pc = "pending"
    /\ FetchReject(searches[s].call, msg)
    /\ SearchFailed(s)

\* fetch resolves for the call of search s: a status that is not ok makes
\* fetchWord throw.
SearchFetchResponse(s, status) ==
    /\ searches[s].pc = "pending"
    /\ FetchResponse(searches[s].call, status)
    /\ IF ResponseOk(status) THEN UNCHANGED pagevars ELSE SearchFailed(s)

\* response.json() resolves for the call of search s: fetchWord returns and
\* handleSearch renders the results.
SearchJsonResolve(s, d) ==
    /\ searches[s].pc = "pending"
    /\ JsonResolve(searches[s].call, d)
    /\ ui' = TryRender(ui, d, s)
    /\ searches' = [searches EXCEPT ![s].pc = "done"]
    /\ UNCHANGED <<link, debouncer>>

\* response.json() rejects for the call of search s.
SearchJsonReject(s) ==
    /\ searches[s].pc = "pending"
    /\ JsonReject(searches[s].call)
    /\ SearchFailed(s)

\* The page: searches issued at any time, also while earlier ones are
\* pending.
NextUI ==
    \/ \E s \in Searches, input \in Inputs : HandleSearch(s, input)
    \/ \E s \in Searches, msg \in FetchRejections : SearchFetchReject(s, msg)
    \/ \E s \in Searches, status \in Statuses : SearchFetchResponse(s, status)
    \/ \E s \in Searches, d \in Bodies : SearchJsonResolve(s, d)
    \/ \E s \in Searches : SearchJsonReject(s)

SpecUI == Init /\ [][NextUI]_vars

(* ------------------------------------------------------------------ *)
(* The page: error dismissal and audio                                *)
(* ------------------------------------------------------------------ *)
\* The dismiss button or the Escape key: UI.hideError().
DismissError ==
    /\ ui.error # "hidden"
    /\ ui' = [ui EXCEPT !.error = "hidden"]
    /\ UNCHANGED <<cache, now, calls, ret, ops, swvars, link, searches, debouncer>>

\* A click on an audio button of the results: AudioService.playAudio calls
\* play() on a new Audio.
AudioPlay ==
    /\ ui.results # ""
    /\ ~ui.audio
    /\ ui' = [ui EXCEPT !.audio = TRUE]
    /\ UNCHANGED <<cache, now, calls, ret, ops, swvars, link, searches, debouncer>>

\* play() resolves: the audio plays.
AudioPlayed ==
    /\ ui.audio
    /\ ui' = [ui EXCEPT !.audio = FALSE]
    /\ UNCHANGED <<cache, now, calls, ret, ops, swvars, link, searches, debouncer>>

\* play() rejects: the catch handler shows the error.
AudioFail ==
    /\ ui.audio
    /\ ui' = ShowError([ui EXCEPT !.audio = FALSE], "Audio playback failed", 0)
    /\ UNCHANGED <<cache, now, calls, ret, ops, swvars, link, searches, debouncer>>

\* A click on the text-to-speech button in a browser without
\* speechSynthesis: AudioService.speakWord shows the error.
SpeakWordUnsupported ==
    /\ ui.results # ""
    /\ ui' = ShowError(ui, "Not supported", 0)
    /\ UNCHANGED <<cache, now, calls, ret, ops, swvars, link, searches, debouncer>>

\* The inputs of the searches on this page: a blank one and two words.
ScreenInputs == {<<" ">>, <<"h", "i">>, <<"n", "o">>}

\* The page with all that changes its containers: searches and their
\* completions, dismissals of the error, audio failures.
NextScreen ==
    \/ \E s \in Searches, input \in ScreenInputs : HandleSearch(s, input)
    \/ \E s \in Searches : SearchFetchReject(s, <<"Failed", "to", "fetch">>)
    \/ \E s \in Searches, status \in {200, 404} : SearchFetchResponse(s, status)
    \/ \E s \in Searches, d \in Bodies \cup {MalformedPayload} : SearchJsonResolve(s, d)
    \/ \E s \in Searches : SearchJsonReject(s)
    \/ DismissError
    \/ AudioPlay
    \/ AudioPlayed
    \/ AudioFail
    \/ SpeakWordUnsupported

SpecScreen == Init /\ [][NextScreen]_vars

(* ------------------------------------------------------------------ *)
(* The page: debounced validation of the search input                 *)
(* ------------------------------------------------------------------ *)
\* The input events that reach the wrapper as its arguments.
DebounceArgs == {"e1", "e2"}
\* The time between two events of the page: half the delay or the delay.
DebounceDeltas == {DEBOUNCE_DELAY \div 2, DEBOUNCE_DELAY}
MaxDebounceNow == (MaxWrapperCalls + 1) * DEBOUNCE_DELAY

\* An input event on the search input: the listener is the wrapper
\* debouncedValidation.
DebouncedCall(args) ==
    /\ Len(debouncer.wcalls) < MaxWrapperCalls
    /\ debouncer' = Debounced(debouncer, args, DEBOUNCE_DELAY, now)
    /\ UNCHANGED <<cache, now, calls, ret, ops, swvars, link, ui, searches>>

\* A timer of the wrapper fires: func.apply(this, args).  The event loop
\* runs the callback once the delay has passed, at that moment or later,
\* and in any order with an input event that is ready at the same moment.
TimerFire(t) ==
    /\ t \in debouncer.timers
    /\ now >= t.due
    /\ debouncer' =
          [debouncer EXCEPT
              !.timers = @ \ {t},
              !.invoked = Append(@, [at |-> now, args |-> t.args,
                                     call |-> t.id,
                                     after |-> Len(debouncer.wcalls)])]
    /\ UNCHANGED <<cache, now, calls, ret, ops, swvars, link, ui, searches>>

\* Time passes on the page.
DebounceTick(d) ==
    /\ now + d <= MaxDebounceNow
    /\ now' = now + d
    /\ UNCHANGED <<cache, calls, ret, ops, swvars, pagevars>>

NextDebounce ==
    \/ \E args \in DebounceArgs : DebouncedCall(args)
    \/ \E t \in debouncer.timers : TimerFire(t)
    \/ \E d \in DebounceDeltas : DebounceTick(d)

SpecDebounce == Init /\ [][NextDebounce]_vars

(* ------------------------------------------------------------------ *)
(* Properties of handleSearch                                         *)
(* ------------------------------------------------------------------ *)
\* An input that is empty after trimming.
Blank(input) == \A i \in 1..Len(input) : input[i] = " "

\* An input with a character other than letters, whitespace, hyphen or
\* apostrophe.
HasOtherCharacter(input) ==
    \E i \in 1..Len(input) :
        input[i] \notin {"h", "i", "n", "o", "H", "I", "N", "O", " ", "-", "'"}

\* Two inputs that differ only in letter case or surrounding whitespace.
SameQuery(a, b) == ToLowerCase(Trim(a)) = ToLowerCase(Trim(b))

\* The latest search issued.
Latest(s) ==
    /\ searches[s].pc # "idle"
    /\ \A t \in Searches : t > s => searches[t].pc = "idle"

\* C27: when a search was issued while an earlier one was pending and both
\* have ended, each with a fetchWord call of its own, the page shows the
\* outcome of the later one of them, the latest search issued.
C27_LatestSearchShown ==
    \A s1, s2 \in Searches :
        ( /\ s1 < s2
          /\ Latest(s2)
          /\ searches[s1].pc = "done"
          /\ searches[s2].pc = "done"
          /\ searches[s1].call # 0
          /\ searches[s2].call # 0
          /\ s1 \notin searches[s2].after )
        => ui.of = s2

\* C28: a handleSearch whose input is blank or has a character outside
\* letters, whitespace, hyphen and apostrophe shows the Empty Input or the
\* Invalid Input error, calls no fetchWord, issues no request and leaves
\* the lookup cache as it was.
C28_InvalidInputRejected ==
    [][\A s \in Searches, input \in Inputs :
          (HandleSearch(s, input) /\ (Blank(input) \/ HasOtherCharacter(input)))
          => /\ ui'.error = (IF Blank(input) THEN "Empty Input" ELSE "Invalid Input")
             /\ ~ui'.loading
             /\ searches'[s].call = 0
             /\ calls' = calls
             /\ cache' = cache]_vars

\* Both rejections have happened: a blank input and one with a digit.
C28_Witness ==
    \E s, t \in Searches :
        /\ searches[s].pc = "done" /\ searches[s].input = <<" ">>
        /\ searches[t].pc = "done" /\ searches[t].input = <<"h", "1">>
        /\ searches[t].call = 0
        /\ ui.error \in {"Empty Input", "Invalid Input"}

\* C29: every key handleSearch passes to fetchWord is the trimmed,
\* lower-cased input, and a search whose input differs only in letter case
\* or surrounding whitespace from that of a search that had ended with a
\* payload issues no request (the clock does not advance here, so every
\* entry is within its time to live).
C29_NormalizedKeyShared ==
    \A s \in Searches :
        searches[s].call # 0 =>
          /\ searches[s].word = KeyOf(ToLowerCase(Trim(searches[s].input)))
          /\ calls[searches[s].call].word = searches[s].word
          /\ \A t \in searches[s].after :
                ( /\ searches[t].call # 0
                  /\ calls[searches[t].call].outcome \in {"ok", "hit"}
                  /\ SameQuery(searches[t].input, searches[s].input) )
                => calls[searches[s].call].nreq = 0

(* ------------------------------------------------------------------ *)
(* fetchWord: properties                                              *)
(* ------------------------------------------------------------------ *)
\* The kind of an error by its message: the not-found error, the network
\* error (non-success status, or no connection), anything else.
ErrorKind(msg) ==
    IF msg = MsgNotFound THEN "NotFoundError"
    ELSE IF msg \in {MsgNetwork, MsgUnableToConnect} THEN "NetworkError"
    ELSE "other"

Failed(c) == calls[c].pc = "threw"

\* C1: a fetchWord(w) called while the cache holds an unexpired entry for w
\* returns that entry's payload and issues no network request.
C1_ValidEntryNoRequest ==
    \A c \in Calls :
        calls[c].hadValid =>
            /\ calls[c].nreq = 0
            /\ calls[c].pc = "returned"
            /\ calls[c].ret = calls[c].held

\* C2 as stated: the steps of a fetchWord call that failed have left the
\* cache as it was.
C2_FailedCallChangedNothing ==
    \A c \in Calls : Failed(c) => ~calls[c].changed

\* The entries of c without the entry of w that is older than the TTL at t.
WithoutExpired(c, w, t) ==
    LET Keep(e) == ~(e.key = w /\ t - e.timestamp > CACHE_DURATION)
    IN  SelectSeq(c, Keep)

\* C2 amended: the lookup a fetchWord(w) call starts with removes w's entry
\* when that entry has expired and changes nothing else; the step in which
\* the call fails leaves the cache unchanged.
C2_FailedCallOnlyPurgesExpired ==
    [][\A c \in Calls :
          /\ (calls[c].pc = "idle" /\ calls'[c].pc = "fetch")
                => cache' = WithoutExpired(cache, calls'[c].word, now)
          /\ (calls[c].pc # "threw" /\ calls'[c].pc = "threw")
                => cache' = cache]_vars

C2_Witness ==
    \E c \in Calls :
        /\ Failed(c)
        /\ calls[c].outcome \in {"notfound", "status", "reject"}
        /\ calls[c].changed
        /\ ~MapHas(cache, calls[c].word)

\* C3: on a miss, fetchWord fails with the not-found error exactly when the
\* upstream answers 404, and with the network error when the fetch rejects
\* or the upstream answers another non-success status.
C3_ErrorKinds ==
    \A c \in Calls :
        Failed(c) =>
            /\ (ErrorKind(calls[c].err) = "NotFoundError")
                  <=> (calls[c].outcome = "notfound")
            /\ calls[c].outcome \in {"status", "reject"}
                  => ErrorKind(calls[c].err) = "NetworkError"

\* C4: an invocation that returned from the cache issued no request, every
\* other invocation issued exactly one, whatever the upstream did.
C4_OneRequestPerMiss ==
    \A c \in Calls :
        /\ calls[c].nreq <= 1
        /\ calls[c].pc \in {"fetch", "json", "threw"} => calls[c].nreq = 1
        /\ calls[c].pc = "returned" =>
              calls[c].nreq = (IF calls[c].outcome = "hit" THEN 0 ELSE 1)

C4_Witness ==
    \E c \in Calls :
        /\ Failed(c)
        /\ calls[c].outcome = "reject"
        /\ calls[c].nreq = 1

\* C5: when response.json() yields d, fetchWord(w) returns d and the cache
\* holds one entry for w, with payload d and the timestamp of the store; a
\* get(w) up to the TTL later returns d.
C5_SuccessStoresPayload ==
    [][\A c \in Calls, d \in Bodies :
          JsonResolve(c, d) =>
              LET w == calls[c].word
                  at == { i \in 1..Len(cache') : cache'[i].key = w }
              IN  /\ calls'[c].pc = "returned"
                  /\ calls'[c].ret = d
                  /\ Cardinality(at) = 1
                  /\ \A i \in at : /\ cache'[i].data = d
                                   /\ cache'[i].timestamp = now
                  /\ \A age \in {0, 1, CACHE_DURATION} :
                        CacheGetRet(cache', w, now + age) = d]_vars

C5_Witness ==
    \E c \in Calls :
        /\ calls[c].pc = "returned"
        /\ calls[c].outcome = "ok"
        /\ MapHas(cache, calls[c].word)
        /\ MapGet(cache, calls[c].word).data = calls[c].ret
        /\ MapGet(cache, calls[c].word).timestamp = now

(* ------------------------------------------------------------------ *)
(* CacheManager: properties                                           *)
(* ------------------------------------------------------------------ *)
Entry(k, d, t) == [key |-> k, data |-> d, timestamp |-> t]

\* The positions of key k in c.
At(c, k) == { i \in 1..Len(c) : c[i].key = k }

\* c without the entries of key k, the others in their order.
Others(c, k) ==
    LET Keep(e) == e.key # k
    IN  SelectSeq(c, Keep)

\* C6: get(k) right after set(k, v), the clock advanced by at most the TTL
\* (the TTL itself included), returns v.
C6_GetAfterSet ==
    [][\A k \in Words, v \in Payloads :
          Set(k, v) =>
              \A age \in {0, 1, CACHE_DURATION - 1, CACHE_DURATION} :
                  /\ CacheGetRet(cache', k, now + age) = v
                  /\ CacheGetCache(cache', k, now + age) = cache']_vars

\* A get has returned the payload of an entry that is exactly TTL old.
C6_Witness ==
    /\ ret = "[world]"
    /\ \E i \in 1..Len(cache) :
          /\ cache[i].data = "[world]"
          /\ now - cache[i].timestamp = CACHE_DURATION
    /\ \A i \in 1..Len(cache) :
          cache[i].data = "[world]" => now - cache[i].timestamp = CACHE_DURATION

\* C7: get(k) on an entry older than the TTL returns null and removes the
\* entry, the others keeping their order; a later get(k) returns null and
\* changes nothing.
C7_ExpiredGetRemoves ==
    [][\A k \in Words :
          (Get(k) /\ \E i \in At(cache, k) :
                        now - cache[i].timestamp > CACHE_DURATION) =>
              /\ ret' = NULL
              /\ At(cache', k) = {}
              /\ Len(cache') = Len(cache) - 1
              /\ cache' = Others(cache, k)
              /\ CacheGetRet(cache', k, now) = NULL
              /\ CacheGetCache(cache', k, now) = cache']_vars

\* A get has purged the expired entry of word 1 from a preloaded cache.
C7_Witness ==
    /\ ret = NULL
    /\ ops = 1
    /\ now > CACHE_DURATION
    /\ Len(cache) = MAX_CACHE_SIZE - 1
    /\ FirstKey(cache) = 2
    /\ \A i \in 1..Len(cache) : cache[i].key = i + 1

\* C8: the cache never holds more than MAX_CACHE_SIZE entries.
C8_SizeBound == Len(cache) <= MAX_CACHE_SIZE

\* A set of a new word into a full cache has happened.
C8_Witness ==
    /\ Len(cache) = MAX_CACHE_SIZE
    /\ ops >= 1
    /\ At(cache, MAX_CACHE_SIZE + 1) # {}

\* C9: set of a key that is not in a full cache evicts the first-inserted
\* entry and no other; the other entries stay, in order, with their values.
C9_FifoEviction ==
    [][\A k \in Words, v \in Payloads :
          (Set(k, v) /\ At(cache, k) = {} /\ Len(cache) = MAX_CACHE_SIZE) =>
              /\ Len(cache') = MAX_CACHE_SIZE
              /\ MapKeys(cache) \ MapKeys(cache') = {cache[1].key}
              /\ \A i \in 2..Len(cache) : cache'[i - 1] = cache[i]
              /\ cache'[Len(cache')].key = k]_vars

C9_Witness ==
    /\ Len(cache) = MAX_CACHE_SIZE
    /\ ops = 1
    /\ cache[Len(cache)].key = MAX_CACHE_SIZE + 1
    /\ \A i \in 1..(MAX_CACHE_SIZE - 1) : cache[i].key = i + 1

C11_SetEvictsOnlyForRoom ==
    [][\A k \in Words, v \in Payloads :
          (Set(k, v) /\ ~(Len(cache) = MAX_CACHE_SIZE /\ At(cache, k) = {})) =>
              Others(cache', k) = Others(cache, k)]_vars

\* C12: get(k) removes the entry of k when it has expired and changes
\* nothing otherwise: contents, timestamps and order stay.
C12_GetChangesOnlyExpired ==
    [][\A k \in Words :
          Get(k) =>
              IF \E i \in At(cache, k) : now - cache[i].timestamp > CACHE_DURATION
              THEN cache' = Others(cache, k)
              ELSE cache' = cache]_vars

\* A get has returned the payload of word 1, stored first by the preload,
\* and left the preloaded cache as it was.
C12_Witness ==
    /\ ret = "[hello]"
    /\ ops = 0
    /\ Len(cache) = MAX_CACHE_SIZE
    /\ \A i \in 1..Len(cache) : cache[i].key = i

\* C13: clear() leaves the cache empty: get returns null for every key, and
\* a set that follows leaves one entry.
C13_ClearEmpties ==
    [][Clear =>
          /\ cache' = <<>>
          /\ \A k \in Words :
                /\ CacheGetRet(cache', k, now) = NULL
                /\ CacheGetCache(cache', k, now) = cache'
                /\ \A v \in Payloads : Len(CacheSet(cache', k, v, now)) = 1]_vars

\* A clear has emptied the cache (one operation cannot empty a preloaded
\* cache otherwise), also once the preloaded entries have expired.
C13_Witness ==
    /\ cache = <<>>
    /\ ops = 1
    /\ now > CACHE_DURATION

\* C14: no fetchWord invocation issues a network request for a word while
\* the cache holds an unexpired entry for that word.
C14_NoRequestWhileValid ==
    \A c \in Calls :
        (calls[c].pc # "idle" /\ calls[c].nreq > 0) => ~calls[c].hadValid

(* ------------------------------------------------------------------ *)
(* Service worker strategies: properties                              *)
(* ------------------------------------------------------------------ *)
\* The strategy of request i returned the response of status 200 that the
\* network gave it.
ReturnedFresh(i, strategy) ==
    /\ reqs[i].strategy = strategy
    /\ reqs[i].pc = "returned"
    /\ reqs[i].outcome = "response"
    /\ reqs[i].netResp # Undefined
    /\ reqs[i].netResp[1].status = 200
    /\ reqs[i].result = reqs[i].netResp

\* C15: cacheFirstStrategy for a request that has a stored response returns
\* a stored response and never invokes fetch.
C15_CacheFirstHitNoNetwork ==
    \A i \in Reqs :
        (reqs[i].strategy = "cacheFirst" /\ reqs[i].looked /\ reqs[i].held # {}) =>
            /\ ~reqs[i].fetched
            /\ reqs[i].pc = "returned"
            /\ reqs[i].result # Undefined
            /\ reqs[i].result[1] \in reqs[i].held

\* A cacheFirstStrategy call has found the response that the put of an
\* earlier call stored, and returned it.
C15_Witness ==
    \E i \in Reqs :
        /\ reqs[i].strategy = "cacheFirst"
        /\ reqs[i].looked
        /\ reqs[i].held # {}
        /\ reqs[i].pc = "returned"
        /\ reqs[i].result[1].status = 200

\* C16: when cacheFirstStrategy returns a response of status 200 that it
\* fetched after a store miss, the static store holds that response under the
\* request's key.
C16_CacheFirstStoredAtReturn ==
    \A i \in Reqs : ReturnedFresh(i, "cacheFirst") => reqs[i].storedAtReturn

\* C17: when fetch throws in cacheFirstStrategy, the strategy returns the
\* stored baseline page if there is one and otherwise ends by throwing.
C17_CacheFirstFallbackOrThrow ==
    \A i \in Reqs :
        (reqs[i].strategy = "cacheFirst" /\ reqs[i].outcome = "rejected"
            /\ reqs[i].fellBack) =>
            IF reqs[i].pages # {}
            THEN /\ reqs[i].pc = "returned"
                 /\ reqs[i].result # Undefined
                 /\ reqs[i].result[1] \in reqs[i].pages
            ELSE reqs[i].pc = "threw"

\* C18: networkFirstStrategy looks into no store before it invokes fetch, and
\* when it returns a response of status 200 from the network, the runtime
\* store holds that response under the request's key.
C18_NetworkFirstStoredAtReturn ==
    \A i \in Reqs :
        reqs[i].strategy = "networkFirst" =>
            /\ ~reqs[i].lookedFirst
            /\ ReturnedFresh(i, "networkFirst") => reqs[i].storedAtReturn

\* C19: when fetch throws in networkFirstStrategy and a response is stored
\* for the request, the strategy returns a stored response, not the offline
\* response, and does not throw.
C19_NetworkFirstFallsBackToStore ==
    \A i \in Reqs :
        (reqs[i].strategy = "networkFirst" /\ reqs[i].outcome = "rejected"
            /\ reqs[i].looked /\ reqs[i].held # {}) =>
            /\ reqs[i].pc = "returned"
            /\ reqs[i].result # Undefined
            /\ reqs[i].result[1] \in reqs[i].held
            /\ reqs[i].result[1].status = 200

\* A networkFirstStrategy call whose fetch threw has returned the response
\* that an earlier call fetched and stored.
C19_Witness ==
    \E i, j \in Reqs :
        /\ j < i
        /\ ReturnedFresh(j, "networkFirst")
        /\ reqs[i].strategy = "networkFirst"
        /\ reqs[i].outcome = "rejected"
        /\ reqs[i].pc = "returned"
        /\ reqs[i].result = reqs[j].netResp

\* C20: when fetch throws in networkFirstStrategy and nothing is stored for
\* the request, the strategy returns a response of status 503 Service
\* Unavailable with a JSON body that names the offline error.
C20_NetworkFirstOfflineResponse ==
    \A i \in Reqs :
        (reqs[i].strategy = "networkFirst" /\ reqs[i].outcome = "rejected"
            /\ reqs[i].looked /\ reqs[i].held = {}) =>
            /\ reqs[i].pc = "returned"
            /\ reqs[i].result # Undefined
            /\ reqs[i].result[1].status = 503
            /\ reqs[i].result[1].statusText = "Service Unavailable"
            /\ reqs[i].result[1].contentType = "application/json"
            /\ reqs[i].result[1].body = OfflineResponse.body

\* A networkFirstStrategy call whose fetch threw found nothing stored and
\* returned the offline response.
C20_Witness ==
    \E i \in Reqs :
        /\ reqs[i].strategy = "networkFirst"
        /\ reqs[i].outcome = "rejected"
        /\ reqs[i].looked
        /\ reqs[i].held = {}
        /\ reqs[i].pc = "returned"
        /\ reqs[i].result = Some(OfflineResponse)

\* C21: every intercepted request is handled by one strategy,
\* networkFirstStrategy exactly when its origin is that of the dictionary
\* API and cacheFirstStrategy otherwise.
C21_OneStrategyByOrigin ==
    \A i \in Reqs :
        reqs[i].pc # "idle" =>
            /\ reqs[i].strategy \in {"networkFirst", "cacheFirst"}
            /\ reqs[i].strategy = "networkFirst"
                   <=> reqs[i].request.origin = "https://api.dictionaryapi.dev"

\* An API request and a request to a third origin were both intercepted; the
\* first went to networkFirstStrategy and the second to cacheFirstStrategy.
C21_Witness ==
    \E i, j \in Reqs :
        /\ reqs[i].pc # "idle"
        /\ reqs[i].request = ApiLookup
        /\ reqs[i].strategy = "networkFirst"
        /\ reqs[j].pc # "idle"
        /\ reqs[j].request = FontSheet
        /\ reqs[j].strategy = "cacheFirst"

\* The strategy of request i can take a step.
StrategyStep(i) ==
    \/ CacheFirstMatch(i)
    \/ \E status \in SwStatuses, body \in Versions :
          CacheFirstFetchResolve(i, status, body)
    \/ CacheFirstPut(i)
    \/ CacheFirstFetchReject(i)
    \/ CacheFirstFallback(i)
    \/ \E status \in SwStatuses, body \in Versions :
          NetworkFirstFetchResolve(i, status, body)
    \/ NetworkFirstPut(i)
    \/ NetworkFirstFetchReject(i)
    \/ NetworkFirstMatch(i)

\* C22: an intercepted request whose strategy can take no further step has
\* ended, either returning a response or throwing; every other intercepted
\* request has a step to take once its fetch or store operation settles.
C22_EndsReturnedOrPropagated ==
    \A i \in Reqs :
        reqs[i].pc # "idle" =>
            \/ ENABLED StrategyStep(i)
            \/ reqs[i].pc = "returned" /\ reqs[i].result # Undefined
            \/ reqs[i].pc = "threw"

\* C30: when fetch resolves in networkFirstStrategy, with any status, the
\* strategy makes no store lookup and returns that response unchanged.
C30_NetworkFirstNoLookupOnResponse ==
    \A i \in Reqs :
        (reqs[i].strategy = "networkFirst" /\ reqs[i].outcome = "response") =>
            /\ ~reqs[i].looked
            /\ reqs[i].pc \in {"open", "returned"}
            /\ reqs[i].pc = "returned" => reqs[i].result = reqs[i].netResp

\* A networkFirstStrategy call returned the 404 response of the network
\* while the runtime store held a response for its request.
C30_Witness ==
    \E i \in Reqs :
        /\ reqs[i].strategy = "networkFirst"
        /\ reqs[i].pc = "returned"
        /\ reqs[i].result # Undefined
        /\ reqs[i].result[1].status = 404
        /\ CachesMatchIn(stores, RUNTIME_CACHE, reqs[i].request) # Undefined

(* ------------------------------------------------------------------ *)
(* Service worker life cycle: properties                              *)
(* ------------------------------------------------------------------ *)
\* The worker's install handler has settled without failing the install.
Installed == sw.phase \in {"installed", "activating", "deleting", "activated"}

\* C23: a failed cache.addAll fails the install, and an install that did not
\* fail left every asset of the manifest in the static store.
C23_InstallAllOrNothing ==
    /\ sw.addAll = "failed" => ~Installed
    /\ Installed => sw.complete

\* The caches of the current version, in their order.
Current(ss) ==
    SelectSeq(ss, LAMBDA st : st.name = "dictionary-app-v1"
                                \/ st.name = "dictionary-runtime-v1")

ActivateStep ==
    \/ ActivateEvent
    \/ ActivateKeys
    \/ \E n \in CachesKeys(stores) : ActivateDelete(n)
    \/ ActivateDone

\* C24: no step of the activation changes the static cache of the current
\* version or the runtime cache, and when the activation completes
\* CacheStorage holds no cache of another name.
C24_ActivationDeletesOthersOnly ==
    [][/\ ActivateStep => Current(stores') = Current(stores)
       /\ ActivateDone => Current(stores') = stores']_vars

\* The activation is complete with nothing intercepted yet: the cache of the
\* earlier version is gone, the runtime cache it left holds its response,
\* and the static cache holds the manifest.
C24_Witness ==
    /\ sw.phase = "activated"
    /\ sw.clear = "idle"
    /\ \A i \in Reqs : reqs[i].pc = "idle"
    /\ OLD_CACHE \notin CachesKeys(stores)
    /\ CachesMatchIn(stores, RUNTIME_CACHE, ApiLookup) = Some(NetResponse(200, "v0"))
    /\ ManifestStored(stores)

(* ------------------------------------------------------------------ *)
(* The page under the service worker: properties                      *)
(* ------------------------------------------------------------------ *)
\* The set that fetchWord performs after a successful fetch.
OrchestratorSet == \E c \in Calls, d \in Bodies : JsonResolve(c, d)

\* The get that fetchWord starts with.
OrchestratorGet == \E c \in Calls, w \in PageWords : FetchWordCall(c, w)

\* caches.open and cache.put of a strategy, and the completion of that put.
StrategyWrite ==
    \/ \E i \in Reqs : CacheFirstPut(i)
    \/ \E i \in Reqs : NetworkFirstPut(i)
    \/ \E p \in puts : PutDone(p)

\* The writes and deletions of the install, activate and message listeners.
ListenerWrite ==
    \/ InstallOpened
    \/ \E body \in Versions : InstallAddAllResolve(body)
    \/ \E n \in CachesKeys(stores) : ActivateDelete(n)
    \/ \E n \in CachesKeys(stores) : ClearCacheDelete(n)

\* What the page or an earlier deployment does from outside the program.
Outside == Reload \/ \E ss \in OldStores : OldVersion(ss)

\* C25: every change of the Lookup Cache is a set or clear of fetchWord, and
\* every change of CacheStorage is made by one of the two strategies.
C25_OnlySetClearAndStrategies ==
    [][/\ cache' # cache => OrchestratorSet \/ Outside
       /\ stores' # stores => StrategyWrite \/ Outside]_vars

\* C25, amended: every change of the Lookup Cache is made by fetchWord, by
\* its set or by its get, which removes an expired entry; every change of
\* CacheStorage is made by a strategy or by the install, activate or message
\* listener.
C25_OnlyFetchWordStrategiesAndListeners ==
    [][/\ cache' # cache => OrchestratorSet \/ OrchestratorGet \/ Outside
       /\ stores' # stores => StrategyWrite \/ ListenerWrite \/ Outside]_vars

\* The get of a fetchWord call has removed an expired entry, after the
\* CLEAR_CACHE listener deleted the caches and a strategy created one again.
C25_Witness ==
    /\ sw.clear = "done"
    /\ stores # <<>>
    /\ \E c \in Calls : calls[c].pc = "fetch" /\ calls[c].changed

StoredIn(st) == {st.entries[rq][1] : rq \in {q \in StoreKeys : st.entries[q] # Undefined}}

\* C31: every response in a store was received with status 200: a network
\* response of another status is what the strategy returns and is not handed
\* to cache.put, and the offline response of status 503 is in no store.
C31_StoresHoldSuccessOnly ==
    /\ \A k \in 1..Len(stores) : \A r \in StoredIn(stores[k]) :
          r.status = 200 /\ r # OfflineResponse
    /\ \A p \in puts : p.response.status = 200
    /\ \A i \in Reqs :
          ( /\ reqs[i].pc = "returned"
            /\ reqs[i].outcome = "response"
            /\ reqs[i].netResp[1].status # 200 )
          => /\ reqs[i].result = reqs[i].netResp
             /\ \A p \in puts : p.id # i

\* A response is stored, one request was answered with the 404 response of
\* the network and another with the offline response.
C31_Witness ==
    /\ \E k \in 1..Len(stores) : StoredIn(stores[k]) # {}
    /\ \E i \in Reqs :
          /\ reqs[i].pc = "returned"
          /\ reqs[i].result # Undefined
          /\ reqs[i].result[1].status \in {404, 503}
          /\ Held(stores, reqs[i].request) = {}

\* The entry of the runtime cache for a request.
RuntimeEntry(ss, rq) == CachesMatchIn(ss, RUNTIME_CACHE, rq)

\* The step in which the put of a networkFirstStrategy call for rq
\* completes, with the response of status 200 that its fetch returned.
StoresFetched(rq) ==
    \E p \in puts :
        /\ puts' = puts \ {p}
        /\ p.request = rq
        /\ reqs[p.id].strategy = "networkFirst"
        /\ reqs[p.id].request = rq
        /\ reqs[p.id].outcome = "response"
        /\ reqs[p.id].netResp = Some(p.response)
        /\ p.response.status = 200
        /\ RuntimeEntry(stores', rq) = Some(p.response)

\* The step in which the message listener deletes the runtime cache.
ClearsRuntime(rq) ==
    /\ sw.clear = "deleting"
    /\ RUNTIME_CACHE \in sw.names
    /\ sw'.names = sw.names \ {RUNTIME_CACHE}
    /\ RuntimeEntry(stores', rq) = Undefined

\* The step that puts into CacheStorage what an earlier deployment left.
Deployed == sw.phase = "parsed" /\ stores = <<>> /\ stores' # <<>>

\* C32 as stated: once the worker is there, the entry of the runtime cache
\* for a request r changes only in the step in which the put of a
\* networkFirstStrategy call for r completes with the response of status 200
\* that its fetch returned; every other step leaves it as it was.
C32_RuntimeEntryChangesBySuccessOnly ==
    [][\A rq \in StoreKeys :
          RuntimeEntry(stores', rq) # RuntimeEntry(stores, rq)
          => Deployed \/ StoresFetched(rq)]_vars

\* C32, amended: the entry of the runtime cache for a request r changes
\* only in the step in which the put of a networkFirstStrategy call for r
\* completes with the response of status 200 that its fetch returned, or in
\* the step in which a CLEAR_CACHE message deletes the runtime cache; every
\* other step of the strategies, of install and of activation leaves it as
\* it was and does not remove it.
C32_RuntimeEntryChangesBySuccessOrClear ==
    [][\A rq \in StoreKeys :
          RuntimeEntry(stores', rq) # RuntimeEntry(stores, rq)
          => Deployed \/ StoresFetched(rq) \/ ClearsRuntime(rq)]_vars

\* The runtime cache that the earlier deployment left holds, under the
\* lookup, the response that a networkFirstStrategy call has fetched since,
\* and a later call whose fetch threw was answered from it.
C32_Witness ==
    \E i, j \in Reqs :
        /\ reqs[i].strategy = "networkFirst"
        /\ reqs[i].pc = "returned"
        /\ reqs[i].outcome = "response"
        /\ reqs[i].netResp # Undefined
        /\ reqs[i].netResp[1].body = "v2"
        /\ RuntimeEntry(stores, reqs[i].request) = reqs[i].netResp
        /\ reqs[j].strategy = "networkFirst"
        /\ reqs[j].pc = "returned"
        /\ reqs[j].outcome = "rejected"
        /\ reqs[j].result = reqs[i].netResp

\* C33: the static cache holds no response under a request to the
\* dictionary API, the runtime cache holds responses under such requests
\* only, and no request has a response in both.
C33_StoresDisjoint ==
    \A rq \in StoreKeys :
        /\ rq.origin = API_ORIGIN => CachesMatchIn(stores, CACHE_NAME, rq) = Undefined
        /\ rq.origin # API_ORIGIN => RuntimeEntry(stores, rq) = Undefined
        /\ \/ CachesMatchIn(stores, CACHE_NAME, rq) = Undefined
           \/ RuntimeEntry(stores, rq) = Undefined

\* Both caches hold a response: the static cache the page, the runtime
\* cache the lookup, each written by its strategy.
C33_Witness ==
    /\ CachesMatchIn(stores, CACHE_NAME, IndexPage) # Undefined
    /\ RuntimeEntry(stores, ApiLookup) # Undefined
    /\ \E i, j \in Reqs :
          /\ reqs[i].strategy = "cacheFirst" /\ reqs[i].pc = "returned"
          /\ reqs[j].strategy = "networkFirst" /\ reqs[j].pc = "returned"
          /\ reqs[j].outcome = "response"
          /\ RuntimeEntry(stores, ApiLookup) = reqs[j].netResp

(* ------------------------------------------------------------------ *)
(* Properties of concurrent misses and of expired entries             *)
(* ------------------------------------------------------------------ *)
\* Another call for the word of call c that found no unexpired entry either
\* and has stored its payload.
StoredBefore(c) ==
    {b \in Calls \ {c} :
        /\ calls[b].word = calls[c].word
        /\ ~calls[b].hadValid
        /\ calls[b].pc = "returned"
        /\ calls[b].outcome = "ok"}

\* C34: a fetchWord(w) call that found no unexpired entry issues a request
\* of its own, also when another such call for w is in flight or has ended;
\* when it stores its payload the cache holds exactly one entry for w and
\* has at most one entry more than before, and no entry more when the entry
\* of the other call is still there.
C34_ConcurrentMissesNotDeduplicated ==
    [][\A c \in Calls :
          (calls[c].pc = "json" /\ calls'[c].pc = "returned" /\ ~calls[c].hadValid)
          => /\ calls[c].nreq = 1
             /\ \A b \in StoredBefore(c) : calls[b].nreq = 1
             /\ Cardinality(At(cache', calls[c].word)) = 1
             /\ Len(cache') <= Len(cache) + 1
             /\ (StoredBefore(c) # {} /\ MapHas(cache, calls[c].word))
                   => Len(cache') <= Len(cache)]_vars

\* Two calls for one word, both started on the empty cache before either
\* had stored (the clock has not advanced), each with its own request, have
\* both returned: the cache holds the one entry of the word.
C34_Witness ==
    \E b, c \in Calls :
        /\ b # c
        /\ c \in StoredBefore(b)
        /\ b \in StoredBefore(c)
        /\ calls[b].nreq = 1 /\ calls[c].nreq = 1
        /\ now = 0
        /\ Len(cache) = 1
        /\ At(cache, calls[c].word) = {1}

\* The keys that a step removes from the cache.
Removed == MapKeys(cache) \ MapKeys(cache')

\* C37: only get(k) removes an entry because it has expired, and only the
\* entry of k: the clock alone removes nothing, a set into a cache that is
\* not full removes nothing, and a set of a new key into a full cache removes
\* the first-inserted entry and no other, whether or not entries have
\* expired.
C37_ExpiredEntriesStayUntilRead ==
    [][/\ \A k \in Words :
            Get(k) => /\ Removed \subseteq {k}
                      /\ k \in Removed => IsExpired(MapGet(cache, k), now)
       /\ (\E d \in Deltas : Tick(d)) => cache' = cache
       /\ \A k \in Words, d \in Payloads :
            Set(k, d) =>
              /\ Len(cache) < MAX_CACHE_SIZE => Removed = {}
              /\ (Len(cache) = MAX_CACHE_SIZE /\ ~MapHas(cache, k))
                    => cache' = Append(Tail(cache), Entry(k, d, now))]_vars

\* A full cache whose entries have all expired unread took a new key: the
\* first-inserted key went, the other expired entries are still there.
C37_Witness ==
    /\ Len(cache) = MAX_CACHE_SIZE
    /\ cache[1].key = 2
    /\ IsExpired(cache[1], now)
    /\ cache[Len(cache)].key = MAX_CACHE_SIZE + 1
    /\ ~IsExpired(cache[Len(cache)], now)

(* ------------------------------------------------------------------ *)
(* Properties of the CLEAR_CACHE message                              *)
(* ------------------------------------------------------------------ *)
\* The handling of CLEAR_CACHE is complete and no put has stored a response
\* since the message was received.
Cleared(w) == w.clear = "done" /\ ~w.restored

\* C35: the listener of CLEAR_CACHE calls caches.delete for every cache that
\* caches.keys() names, those of the current version included, and each
\* delete removes its cache; no other step removes an entry of the runtime
\* cache; and once the handling is complete, as long as no put has stored a
\* response again, no cache holds a response for a request to the API and a
\* networkFirstStrategy call whose fetch throws returns the 503 response.
C35_ClearCacheRemovesEverything ==
    [][/\ (sw.clear = "keys" /\ sw'.clear = "deleting")
            => sw'.names = CachesKeys(stores)
       /\ \A n \in sw.names :
            (sw.clear = "deleting" /\ sw'.names = sw.names \ {n})
            => ~HasCache(stores', n)
       /\ \A rq \in StoreKeys :
            (RuntimeEntry(stores, rq) # Undefined /\ RuntimeEntry(stores', rq) = Undefined)
            => ClearsRuntime(rq)
       /\ Cleared(sw') =>
            \A rq \in StoreKeys : rq.origin = API_ORIGIN => Held(stores', rq) = {}
       /\ \A i \in Reqs :
            ( /\ Cleared(sw)
              /\ reqs[i].strategy = "networkFirst"
              /\ reqs[i].pc = "match"
              /\ reqs'[i].pc = "returned" )
            => reqs'[i].result = Some(OfflineResponse)]_vars

\* The runtime cache held the lookup: a call whose fetch threw was answered
\* from it.  Then CLEAR_CACHE was handled, and the next call whose fetch
\* threw got the 503 response.
C35_Witness ==
    /\ Cleared(sw)
    /\ stores = <<>>
    /\ \E i, j \in Reqs :
          /\ i < j
          /\ reqs[i].strategy = "networkFirst" /\ reqs[j].strategy = "networkFirst"
          /\ reqs[i].request = reqs[j].request
          /\ reqs[i].outcome = "rejected" /\ reqs[j].outcome = "rejected"
          /\ reqs[i].pc = "returned" /\ reqs[j].pc = "returned"
          /\ reqs[i].result # Undefined
          /\ reqs[i].result[1].status = 200
          /\ reqs[j].result = Some(OfflineResponse)

(* ------------------------------------------------------------------ *)
(* Properties of the containers of the page                           *)
(* ------------------------------------------------------------------ *)
\* C38: whenever the error container is shown, the loading indicator is
\* hidden and the results container is empty.
C38_ErrorShownAlone ==
    ui.error # "hidden" => (~ui.loading /\ ui.results = "")

\* An audio failure shows its error while a search is pending: the loading
\* indicator of that search is hidden and the results are gone.
C38_Witness ==
    /\ ui.error = "Audio playback failed"
    /\ \E s \in Searches : searches[s].pc = "pending"

\* C39: a handleSearch whose input passes validation and whose fetchWord is
\* pending shows the loading indicator; when its fetchWord has settled the
\* loading indicator is hidden and the page shows results or an error, also
\* when rendering threw; and the loading indicator is hidden whenever no
\* search is pending.
C39_LoadingEndsWithOutcome ==
    [][/\ \A s \in Searches :
            (searches[s].pc = "idle" /\ searches'[s].pc = "pending") => ui'.loading
       /\ \A s \in Searches :
            (searches[s].pc # "done" /\ searches'[s].pc = "done" /\ searches'[s].call # 0)
            => /\ ~ui'.loading
               /\ ui'.results # "" \/ ui'.error # "hidden"
       /\ (\A s \in Searches : searches'[s].pc # "pending") => ~ui'.loading]_vars

\* A search whose payload made rendering throw has ended: the page shows
\* the error of the catch block and no loading indicator.
C39_Witness ==
    \E s \in Searches :
        /\ searches[s].pc = "done"
        /\ searches[s].call # 0
        /\ calls[searches[s].call].pc = "returned"
        /\ calls[searches[s].call].ret = MalformedPayload
        /\ ui.error = "Search Failed"
        /\ ui.of = s
        /\ ~ui.loading

(* ------------------------------------------------------------------ *)
(* Properties of Utils.debounce                                       *)
(* ------------------------------------------------------------------ *)
WrapperCalls == 1..Len(debouncer.wcalls)
\* the invocations of func by the timer of wrapper call i
Invocations(i) ==
    {j \in 1..Len(debouncer.invoked) : debouncer.invoked[j].call = i}
\* the time between wrapper call i and the next one
Gap(i) == debouncer.wcalls[i + 1].at - debouncer.wcalls[i].at

\* func is never invoked earlier than the delay after the most recent call
\* of the wrapper.
NeverEarly ==
    \A j \in 1..Len(debouncer.invoked) :
        LET v == debouncer.invoked[j]
        IN  /\ v.after \in WrapperCalls
            /\ v.at >= debouncer.wcalls[v.after].at + DEBOUNCE_DELAY

\* A burst invokes func once, for its last call: a call that another one
\* follows in less than the delay never invokes func, no call invokes it
\* twice, an invocation is made for the most recent call and with its
\* arguments, and the latest call has either invoked func or still has its
\* timer set.
BurstInvokesLast ==
    /\ \A i \in WrapperCalls :
          /\ Cardinality(Invocations(i)) <= 1
          /\ (i + 1 \in WrapperCalls /\ Gap(i) < DEBOUNCE_DELAY)
                => Invocations(i) = {}
    /\ \A j \in 1..Len(debouncer.invoked) :
          LET v == debouncer.invoked[j]
          IN  /\ v.call = v.after
              /\ v.args = debouncer.wcalls[v.call].args
    /\ debouncer.wcalls # <<>> =>
          LET last == Len(debouncer.wcalls)
          IN  \/ Invocations(last) # {}
              \/ \E t \in debouncer.timers : t.id = last

\* C36 as stated: func is never invoked earlier than the delay after the
\* most recent wrapper call; a burst of calls less than the delay apart
\* invokes func once, for its last call and with its arguments; and every
\* wrapper call that the next one follows after at least the delay has
\* invoked func once.
C36_SeparatedCallsEachInvoke ==
    /\ NeverEarly
    /\ BurstInvokesLast
    /\ \A i \in WrapperCalls :
          (i + 1 \in WrapperCalls /\ Gap(i) >= DEBOUNCE_DELAY)
             => Cardinality(Invocations(i)) = 1

\* C36 (amended): func is never invoked earlier than the delay after the
\* most recent wrapper call; a burst of calls less than the delay apart
\* invokes func at most once, for its last call and with its arguments;
\* a wrapper call that another one follows has invoked func only if its
\* timer fired before that next call, at least the delay after its own.
C36_DebounceInvokesAfterQuiet ==
    /\ NeverEarly
    /\ BurstInvokesLast
    /\ \A i \in WrapperCalls : \A j \in Invocations(i) :
          /\ debouncer.invoked[j].at >= debouncer.wcalls[i].at + DEBOUNCE_DELAY
          /\ i + 1 \in WrapperCalls =>
                /\ debouncer.invoked[j].at <= debouncer.wcalls[i + 1].at
                /\ Gap(i) >= DEBOUNCE_DELAY

\* A burst of two calls with different arguments has invoked func once,
\* with the second call's arguments, and a third call at least the delay
\* later has invoked it again.
C36_Witness ==
    /\ Len(debouncer.wcalls) = 3
    /\ Gap(1) < DEBOUNCE_DELAY
    /\ Gap(2) >= DEBOUNCE_DELAY
    /\ debouncer.wcalls[1].args # debouncer.wcalls[2].args
    /\ Len(debouncer.invoked) = 2
    /\ debouncer.invoked[1].call = 2
    /\ debouncer.invoked[1].args = debouncer.wcalls[2].args
    /\ debouncer.invoked[2].call = 3

====
